---- MODULE Spec2Model ----
(***************************************************************************)
(* Model of schema-enforcer: the validator objects (JsonSchema,            *)
(* JmesPathModelValidation, PydanticValidation), the SchemaManager that    *)
(* indexes them, the InstanceFile matching and the `validate` command.     *)
(*                                                                         *)
(* External libraries are modelled by what they return: the Draft-7        *)
(* validator on the fragment {properties, additionalProperties, type,      *)
(* items}; jmespath.search and pydantic's model_validate by their result   *)
(* on the data, which is carried by the data itself.                       *)
(***************************************************************************)
EXTENDS Integers, Sequences, FiniteSets, TLC

\* ------------------------------------------------------------------ bounds
MaxFiles == 2       \* schema documents found in the schema directory
MaxPlugins == 1     \* validator classes found in the validator directory
MaxLines == 2       \* lines of a data file
MaxInstances == 1   \* data files found in the search directories
MaxCalls == 2       \* calls made on one validator object
MaxDataKeys == 2    \* top-level keys of a validated mapping
MaxIds == 2         \* schema ids in one list of ids
MaxHosts == 2       \* hosts of the inventory
MaxTreeFiles == 1   \* files of one directory of the searched tree
MaxElems == 2       \* elements of a list in a data file
MaxAccesses == 3    \* accesses to top_level_properties of one InstanceFile
MaxDirs == 2        \* directories of one invalid/ directory

\* --------------------------------------------------------------- constants
None == "None"
RESULT_PASS == "PASS"
RESULT_FAIL == "FAIL"
SCHEMA_TAG == "jsonschema"

NameOrder == <<"a", "b", "x">>
Names == {NameOrder[i] : i \in 1..Len(NameOrder)}

\* the members of S in the iteration order of the mapping that holds them
SeqOfSet(S) == SelectSeq(NameOrder, LAMBDA n : n \in S)

RECURSIVE SeqsUpTo(_, _)
SeqsUpTo(S, n) ==
    IF n = 0 THEN {<<>>}
    ELSE LET shorter == SeqsUpTo(S, n - 1)
         IN  shorter \cup {Append(q, e) : q \in {r \in shorter : Len(r) = n - 1}, e \in S}

RECURSIVE Concat(_)
Concat(seqs) == IF seqs = <<>> THEN <<>> ELSE Head(seqs) \o Concat(Tail(seqs))

\* ------------------------------------------------------- ValidationResult
\* str(n) for the List[str] coercion of absolute_path (coerce_numbers_to_str)
IntToStr(n) == IF n = 0 THEN "0" ELSE IF n = 1 THEN "1" ELSE IF n = 2 THEN "2" ELSE "n"

PathKey(s) == [t |-> "str", s |-> s, n |-> 0]
PathIdx(n) == [t |-> "int", s |-> "", n |-> n]

CoercePath(path) ==
    [i \in 1..Len(path) |-> IF path[i].t = "int" THEN IntToStr(path[i].n) ELSE path[i].s]

\* a message is a tuple of words; the empty tuple stands for message=None
NoMessage == <<>>

ValidationResult(result, schema_id, message, absolute_path) ==
    [result |-> result,
     schema_id |-> schema_id,
     instance_name |-> None,
     instance_location |-> None,
     instance_type |-> None,
     instance_hostname |-> None,
     absolute_path |-> CoercePath(absolute_path),
     message |-> message]

passed(r) == r.result = RESULT_PASS

\* ---------------------------------------------------------- BaseValidation
add_validation_error(results, id, message, absolute_path) ==
    Append(results, ValidationResult(RESULT_FAIL, id, message, absolute_path))

\* absolute_path stands for **kwargs: <<>> when the caller passes none
add_validation_pass(results, id, absolute_path) ==
    Append(results, ValidationResult(RESULT_PASS, id, NoMessage, absolute_path))

\* get_results appends a PASS to an empty list and returns the list itself
\* variant: the stored list as it is, without the PASS added for an empty one
get_results_as_stored(results, id) == results

get_results(results, id) ==
    IF results = <<>> THEN <<ValidationResult(RESULT_PASS, id, NoMessage, <<>>)>> ELSE results

\* ------------------------------------------------------ schema documents
\* A property schema: {type, properties, additionalProperties, items}.  The
\* children of a nested object and of an array item are string properties,
\* so `properties` is the set of their names.  additionalProperties = TRUE
\* also stands for an absent keyword.
NoItems == [type |-> None, properties |-> {}, additionalProperties |-> TRUE]

PropString == [type |-> "string", properties |-> {}, additionalProperties |-> TRUE,
               hasItems |-> FALSE, items |-> NoItems]

PropObject(children, additional) ==
    [type |-> "object", properties |-> children, additionalProperties |-> additional,
     hasItems |-> FALSE, items |-> NoItems]

PropArray(itemType, children, additional) ==
    [type |-> "array", properties |-> {}, additionalProperties |-> TRUE,
     hasItems |-> TRUE,
     items |-> [type |-> itemType, properties |-> children, additionalProperties |-> additional]]

\* the content of a schema file as load_file returns it; metaErrors are the
\* errors the Draft-7 meta-schema reports on it
SchemaDoc(filename, id, hasProperties, properties, additional, metaErrors) ==
    [filename |-> filename, id |-> id, hasProperties |-> hasProperties,
     properties |-> properties, additionalProperties |-> additional,
     metaErrors |-> metaErrors]

\* --------------------------------------------------------------- instances
StrV == [k |-> "str", keys |-> {}, elems |-> <<>>]
NumV == [k |-> "num", keys |-> {}, elems |-> <<>>]
ObjV(keys) == [k |-> "obj", keys |-> keys, elems |-> <<>>]
ArrV(elems) == [k |-> "arr", keys |-> {}, elems |-> elems]
NullV == [k |-> "null", keys |-> {}, elems |-> <<>>]

\* results of jmespath.search on a piece of data
JNull == [t |-> "null", n |-> 0, items |-> {}]
JInt(n) == [t |-> "int", n |-> n, items |-> {}]
JList(items) == [t |-> "list", n |-> 0, items |-> items]

Queries == {"left", "right"}

\* a piece of data as load_file returns it: its structure (kind "none" for
\* None, "map", "str", "num", "bool" or "list", with the mapping, the scalar
\* or the list elements), what the jmespath queries find in it (search) and
\* whether the typed model accepts it in lax and in strict mode
Data(kind, map, scalar, elems, search, okLax, okStrict) ==
    [kind |-> kind, map |-> map, scalar |-> scalar, elems |-> elems,
     search |-> search, okLax |-> okLax, okStrict |-> okStrict]

EmptyMap == [n \in {} |-> StrV]
NoSearch == [q \in Queries |-> JNull]

MapData(map) == Data("map", map, "", <<>>, NoSearch, TRUE, TRUE)
NoneData == Data("none", EmptyMap, "", <<>>, NoSearch, FALSE, FALSE)
StrData(s) == Data("str", EmptyMap, s, <<>>, NoSearch, FALSE, FALSE)
NumData(n) == Data("num", EmptyMap, IntToStr(n), <<>>, NoSearch, FALSE, FALSE)
BoolData(b) == Data("bool", EmptyMap, IF b THEN "True" ELSE "False", <<>>, NoSearch, FALSE, FALSE)
\* a list element is a mapping (its keys) or a scalar
ListData(elems) == Data("list", EmptyMap, "", elems, NoSearch, FALSE, FALSE)
MapElem(keys) == [isMap |-> TRUE, keys |-> keys, scalar |-> ""]
ScalarElem(v) == [isMap |-> FALSE, keys |-> {}, scalar |-> v]

\* ------------------------------------------------- Draft7Validator.iter_errors
Draft7Error(message, path) == [message |-> message, absolute_path |-> path]

TypeMatches(type, v) ==
    \/ type = "string" /\ v.k = "str"
    \/ type = "object" /\ v.k = "obj"
    \/ type = "array" /\ v.k = "arr"

AdditionalMessage(extras) == <<"Additional properties are not allowed">> \o SeqOfSet(extras)

\* errors of one array item, an object holding `keys`
ItemErrors(items, keys, path) ==
    (IF items.type = "object" THEN <<>>
     ELSE <<Draft7Error(<<"is not of type", items.type>>, path)>>)
    \o
    (IF ~items.additionalProperties /\ keys \ items.properties # {}
     THEN <<Draft7Error(AdditionalMessage(keys \ items.properties), path)>>
     ELSE <<>>)

\* errors of the value v of a declared property
ValueErrors(ps, v, path) ==
    (IF TypeMatches(ps.type, v) THEN <<>>
     ELSE <<Draft7Error(<<"is not of type", ps.type>>, path)>>)
    \o
    (IF v.k = "obj" /\ ~ps.additionalProperties /\ v.keys \ ps.properties # {}
     THEN <<Draft7Error(AdditionalMessage(v.keys \ ps.properties), path)>>
     ELSE <<>>)
    \o
    (IF v.k = "arr" /\ ps.hasItems
     THEN Concat([i \in 1..Len(v.elems) |->
                    ItemErrors(ps.items, v.elems[i], Append(path, PathIdx(i - 1)))])
     ELSE <<>>)

\* the keywords apply to mappings only; any other instance has no error
Draft7Errors(schema, data) ==
    IF data.kind # "map" THEN <<>>
    ELSE LET declared == IF schema.hasProperties THEN DOMAIN schema.properties ELSE {}
             present == SeqOfSet(declared \cap DOMAIN data.map)
             extras == DOMAIN data.map \ declared
         IN  Concat([i \in 1..Len(present) |->
                       ValueErrors(schema.properties[present[i]], data.map[present[i]],
                                   <<PathKey(present[i])>>)])
             \o
             (IF ~schema.additionalProperties /\ extras # {}
              THEN <<Draft7Error(AdditionalMessage(extras), <<>>)>>
              ELSE <<>>)

\* -------------------------------------------------------------- validators
\* One record shape for the three kinds of validator object.  validator and
\* strict_validator hold the schema the cached Draft7Validator was built
\* from (<<>> while None).
NoRight == [compiled |-> FALSE, query |-> "right", value |-> JNull]

JsonSchema(doc) ==
    [kind |-> "jsonschema", id |-> doc.id, filename |-> doc.filename,
     top_level_properties |-> DOMAIN doc.properties, tlpIsSet |-> TRUE,
     data |-> <<doc>>, results |-> <<>>, validator |-> <<>>, strict_validator |-> <<>>,
     left |-> "left", right |-> NoRight, operator |-> None, error |-> NoMessage]

get_validator(self) ==
    IF self.validator # <<>> THEN self
    ELSE [self EXCEPT !.validator = <<self.data[1]>>]

StrictSchema(schema) ==
    [schema EXCEPT
       !.additionalProperties = FALSE,
       !.properties = [p \in DOMAIN schema.properties |->
                         LET prop == schema.properties[p]
                         IN  IF prop.hasItems /\ prop.items.type = "object"
                             THEN [prop EXCEPT !.items.additionalProperties = FALSE]
                             ELSE prop]]

get_strict_validator(self) ==
    IF self.strict_validator # <<>> THEN self
    ELSE [self EXCEPT !.strict_validator = <<StrictSchema(self.data[1])>>]

RECURSIVE AddErrors(_, _, _)
AddErrors(results, id, errs) ==
    IF errs = <<>> THEN results
    ELSE AddErrors(add_validation_error(results, id, Head(errs).message,
                                        Head(errs).absolute_path),
                   id, Tail(errs))

\* the outcome of a call: the object afterwards, what the call returned
\* (retNone: it returned None) and the exception it raised ("" for none)
Outcome(self, retNone, ret, raised) ==
    [self |-> self, retNone |-> retNone, ret |-> ret, raised |-> raised]

JsonSchemaValidate(self, data, strict) ==
    LET withValidator == IF strict THEN get_strict_validator(self) ELSE get_validator(self)
        schema == IF strict THEN withValidator.strict_validator[1]
                  ELSE withValidator.validator[1]
        errs == Draft7Errors(schema, data)
        added == IF errs # <<>> THEN AddErrors(self.results, self.id, errs)
                 ELSE add_validation_pass(self.results, self.id, <<>>)
        after == [withValidator EXCEPT !.results = get_results(added, self.id)]
    IN  Outcome(after, FALSE, after.results, "")

\* ------------------------------------------------ JmesPathModelValidation
JmesPathModelValidation(id, tlp, tlpIsSet, right, operator, error) ==
    [kind |-> "jmespath", id |-> id, filename |-> None,
     top_level_properties |-> tlp, tlpIsSet |-> tlpIsSet,
     data |-> <<>>, results |-> <<>>, validator |-> <<>>, strict_validator |-> <<>>,
     left |-> "left", right |-> right, operator |-> operator, error |-> error]

Literal(v) == [compiled |-> FALSE, query |-> "right", value |-> v]
Compiled(q) == [compiled |-> TRUE, query |-> q, value |-> JNull]

\* bool(lhs): None, 0 and an empty list are false
Truthy(v) == (v.t = "int" /\ v.n # 0) \/ (v.t = "list" /\ v.items # {})

Operators == {"gt", "gte", "eq", "lt", "lte", "contains"}

\* int(x) raises TypeError on None and on a list; `v in r` on an int
OperatorRaises(op, r, v) ==
    IF op \in {"gt", "gte", "lt", "lte"} THEN r.t # "int" \/ v.t # "int"
    ELSE IF op = "contains" THEN r.t # "list"
    ELSE FALSE

ApplyOperator(op, r, v) ==
    CASE op = "gt" -> r.n > v.n
      [] op = "gte" -> r.n >= v.n
      [] op = "eq" -> r = v
      [] op = "lt" -> r.n < v.n
      [] op = "lte" -> r.n <= v.n
      [] op = "contains" -> v.t = "int" /\ v.n \in r.items

JmesPathValidate(self, data, strict) ==
    LET lhs == data.search[self.left]
        rhs == IF self.right.compiled THEN data.search[self.right.query]
               ELSE self.right.value
    IN  IF ~Truthy(lhs) THEN Outcome(self, TRUE, <<>>, "")
        ELSE IF OperatorRaises(self.operator, lhs, rhs)
             THEN Outcome(self, TRUE, <<>>, "TypeError")
        ELSE IF ApplyOperator(self.operator, lhs, rhs) THEN Outcome(self, TRUE, <<>>, "")
        ELSE Outcome([self EXCEPT !.results =
                         add_validation_error(self.results, self.id, self.error, <<>>)],
                     TRUE, <<>>, "")

\* ----------------------------------------------------- PydanticValidation
PydanticValidation(id, tlp) ==
    [kind |-> "pydantic", id |-> id, filename |-> None,
     top_level_properties |-> tlp, tlpIsSet |-> TRUE,
     data |-> <<>>, results |-> <<>>, validator |-> <<>>, strict_validator |-> <<>>,
     left |-> "left", right |-> NoRight, operator |-> None, error |-> NoMessage]

ModelError == <<"validation error for model">>

PydanticValidate(self, data, strict) ==
    IF (IF strict THEN data.okStrict ELSE data.okLax)
    THEN Outcome([self EXCEPT !.results = add_validation_pass(self.results, self.id, <<>>)],
                 TRUE, <<>>, "")
    ELSE Outcome([self EXCEPT !.results =
                     add_validation_error(self.results, self.id, ModelError, <<>>)],
                 TRUE, <<>>, "")

\* schema.validate(data, strict) on a validator of any kind
Validate(self, data, strict) ==
    CASE self.kind = "jsonschema" -> JsonSchemaValidate(self, data, strict)
      [] self.kind = "jmespath" -> JmesPathValidate(self, data, strict)
      [] self.kind = "pydantic" -> PydanticValidate(self, data, strict)

GetResults(self) ==
    LET after == [self EXCEPT !.results = get_results(self.results, self.id)]
    IN  Outcome(after, FALSE, after.results, "")

clear_results(self) == [self EXCEPT !.results = <<>>]

\* --------------------------------------------------------------- dict
\* a Python dict: the keys in insertion order and the value of each key
EmptyDict == [order |-> <<>>, at |-> [k \in {} |-> k]]

DictKeys(d) == DOMAIN d.at

DictSet(d, k, v) ==
    [order |-> IF k \in DOMAIN d.at THEN d.order ELSE Append(d.order, k),
     at |-> [x \in DOMAIN d.at \cup {k} |-> IF x = k THEN v ELSE d.at[x]]]

RECURSIVE DictUpdate(_, _)
DictUpdate(d, other) ==
    IF other.order = <<>> THEN d
    ELSE DictUpdate(DictSet(d, Head(other.order), other.at[Head(other.order)]),
                    [order |-> Tail(other.order), at |-> other.at])

\* d.values() in iteration order
DictValues(d) == [i \in 1..Len(d.order) |-> d.at[d.order[i]]]

\* ------------------------------------------------------------ exceptions
Exc(type, filename, errors) == [type |-> type, filename |-> filename, errors |-> errors]
NoExc == Exc("", "", <<>>)

\* ---------------------------------------------------------- SchemaManager
WithInstance(r, type, name, location) ==
    [r EXCEPT !.instance_type = type, !.instance_name = name, !.instance_location = location]

\* JsonSchema.check_if_valid: one FAIL per meta-schema error, else one PASS
check_if_valid(self) ==
    LET errs == self.data[1].metaErrors
    IN  IF errs # <<>>
        THEN [i \in 1..Len(errs) |->
                WithInstance(ValidationResult(RESULT_FAIL, self.id, errs[i].message,
                                              errs[i].absolute_path),
                             "SCHEMA", self.id, "")]
        ELSE <<WithInstance(ValidationResult(RESULT_PASS, self.id, NoMessage, <<>>),
                            "SCHEMA", self.id, "")>>

\* InvalidJSONSchema.__str__: the file name and the messages of the FAILs
InvalidJSONSchema(schema) ==
    LET fails == SelectSeq(check_if_valid(schema), LAMBDA r : ~passed(r))
    IN  Exc("InvalidJSONSchema", schema.filename, [i \in 1..Len(fails) |-> fails[i].message])

\* create_schema_from_file: set(None) raises TypeError when the document has
\* no `properties`; ValidationResult(schema_id=None) raises ValidationError
\* when it has no `$id`
create_schema_from_file(doc) ==
    IF ~doc.hasProperties
    THEN [schema |-> <<>>, exc |-> Exc("TypeError", doc.filename, <<>>)]
    ELSE IF doc.id = None
    THEN [schema |-> <<>>, exc |-> Exc("ValidationError", doc.filename, <<>>)]
    ELSE IF \E i \in 1..Len(check_if_valid(JsonSchema(doc))) :
               ~passed(check_if_valid(JsonSchema(doc))[i])
    THEN [schema |-> <<>>, exc |-> InvalidJSONSchema(JsonSchema(doc))]
    ELSE [schema |-> <<JsonSchema(doc)>>, exc |-> NoExc]

\* the loop of SchemaManager.__init__ over the schema files
RECURSIVE LoadSchemaFiles(_, _)
LoadSchemaFiles(files, schemas) ==
    IF files = <<>> THEN [schemas |-> schemas, exc |-> NoExc]
    ELSE LET created == create_schema_from_file(Head(files))
         IN  IF created.exc # NoExc THEN [schemas |-> schemas, exc |-> created.exc]
             ELSE LoadSchemaFiles(Tail(files),
                                  DictSet(schemas, created.schema[1].id, created.schema[1]))

\* a validator class of the validator directory: classId is its class
\* attribute `id` and initId the `id` its __init__ sets (None when absent)
PluginClass(name, kind, classId, initId, tlp, tlpIsSet, right, operator, error) ==
    [name |-> name, kind |-> kind, classId |-> classId, initId |-> initId,
     tlp |-> tlp, tlpIsSet |-> tlpIsSet, right |-> right, operator |-> operator,
     error |-> error]

\* the key load_validators_path files the class under
PluginKey(cls) ==
    IF cls.kind = "pydantic" \/ cls.classId = None THEN cls.name ELSE cls.classId

\* cls(**validator_kwargs)
PluginInstance(cls) ==
    LET id == IF cls.initId # None THEN cls.initId ELSE PluginKey(cls)
    IN  IF cls.kind = "pydantic" THEN PydanticValidation(id, cls.tlp)
        ELSE JmesPathModelValidation(id, cls.tlp, cls.tlpIsSet, cls.right,
                                     cls.operator, cls.error)

RECURSIVE load_validators_path(_, _)
load_validators_path(classes, validators) ==
    IF classes = <<>> THEN validators
    ELSE IF PluginKey(Head(classes)) \in DictKeys(validators)
    THEN load_validators_path(Tail(classes), validators)
    ELSE load_validators_path(Tail(classes),
                              DictSet(validators, PluginKey(Head(classes)),
                                      PluginInstance(Head(classes))))

\* a typed-model group of config.pydantic_validators: PydanticManager
PydanticManager(prefix, models) == [prefix |-> prefix, models |-> models]

\* load_validators: validator_packages defaults to [] and is not read again;
\* the validators are those of the validator directory
load_validators(validator_path, validator_packages) ==
    LET packages == IF validator_packages = <<>> THEN <<>> ELSE validator_packages
    IN  load_validators_path(validator_path, EmptyDict)

SchemaManagerInit(files, classes, packages) ==
    LET loaded == LoadSchemaFiles(files, EmptyDict)
    IN  IF loaded.exc # NoExc THEN [schemas |-> EmptyDict, exc |-> loaded.exc]
        ELSE [schemas |-> DictUpdate(loaded.schemas, load_validators(classes, packages)),
              exc |-> NoExc]

\* ---------------------------------------------------------- InstanceFile
\* A line of a data file: whether it starts with `#`, the tag it holds
\* ("" for none) and the comma-separated payload after `<tag>:`, each item
\* an id with or without blanks around it.  A decorator line lists at least
\* one id.
Line(comment, tag, payload) == [comment |-> comment, tag |-> tag, payload |-> payload]
Item(ws, id) == [ws |-> ws, id |-> id]
DecoratorLine(payload) == Line(TRUE, SCHEMA_TAG, payload)
CommentLine == Line(TRUE, "", <<>>)
BodyLine == Line(FALSE, "", <<>>)

\* a file of a search directory: its raw text and what load_file parses
DataFile(root, filename, text, content) ==
    [root |-> root, filename |-> filename, text |-> text, content |-> content]

\* x.strip()
Strip(item) == item.id

\* re.match anchors the pattern at the start of the content: only a
\* decorator on the first line is found
\* variant: a file with static matches ignores its decorator
add_matches_by_decorator_unless_mapped(matches, text) ==
    IF matches # {} THEN matches
    ELSE IF text # <<>> /\ text[1].comment /\ text[1].tag = SCHEMA_TAG
         THEN {Strip(text[1].payload[i]) : i \in 1..Len(text[1].payload)}
         ELSE {}

add_matches_by_decorator(matches, text) ==
    IF /\ \E i \in 1..Len(text) : text[i].tag = SCHEMA_TAG
       /\ text[1].comment
       /\ text[1].tag = SCHEMA_TAG
    THEN matches \cup {Strip(text[1].payload[i]) : i \in 1..Len(text[1].payload)}
    ELSE matches

InstanceFile(file, matches) ==
    [path |-> file.root, filename |-> file.filename,
     top_level_properties |-> {},
     matches |-> add_matches_by_decorator(matches, file.text),
     text |-> file.text, content |-> file.content]

\* `not content`
Falsy(content) ==
    \/ content.kind = "none"
    \/ content.kind = "map" /\ DOMAIN content.map = {}
    \/ content.kind = "str" /\ content.scalar = ""
    \/ content.kind = "num" /\ content.scalar = "0"
    \/ content.kind = "bool" /\ content.scalar = "False"
    \/ content.kind = "list" /\ content.elems = <<>>

ListProperties(elems) ==
    UNION {IF elems[i].isMap THEN elems[i].keys ELSE {elems[i].scalar} : i \in 1..Len(elems)}

\* the property top_level_properties: the value, the cache afterwards and
\* the exception raised (set() of a number or of True raises TypeError)
\* parsed: whether self._get_content() was called
TopLevelProperties(self) ==
    IF self.top_level_properties # {}
    THEN [value |-> self.top_level_properties, self |-> self, raised |-> "", parsed |-> FALSE]
    ELSE IF Falsy(self.content)
    THEN [value |-> self.top_level_properties, self |-> self, raised |-> "", parsed |-> TRUE]
    ELSE IF self.content.kind \in {"num", "bool"}
    THEN [value |-> {}, self |-> self, raised |-> "TypeError", parsed |-> TRUE]
    ELSE LET props == CASE self.content.kind = "map" -> DOMAIN self.content.map
                        [] self.content.kind = "str" -> {self.content.scalar}
                        [] self.content.kind = "list" -> ListProperties(self.content.elems)
         IN  [value |-> props, self |-> [self EXCEPT !.top_level_properties = props],
              raised |-> "", parsed |-> TRUE]

\* schema_obj.top_level_properties.intersection(self.top_level_properties)
\* variant: every top-level property of the schema must be in the file
PropertiesContained(schema_obj, properties) ==
    schema_obj.top_level_properties \subseteq properties

PropertiesIntersect(schema_obj, properties) ==
    schema_obj.top_level_properties \cap properties # {}

\* InstanceFile.add_matches_by_property_automap: `.intersection` is looked
\* up on the schema's top_level_properties (AttributeError on a list)
\* before the file's top_level_properties is computed
RECURSIVE AutomapLoop(_, _, _, _)
AutomapLoop(order, at, self, matches) ==
    IF order = <<>>
    THEN [self |-> [self EXCEPT !.matches = self.matches \cup matches], raised |-> ""]
    ELSE IF ~at[Head(order)].tlpIsSet THEN [self |-> self, raised |-> "AttributeError"]
    ELSE LET tlp == TopLevelProperties(self)
         IN  IF tlp.raised # "" THEN [self |-> tlp.self, raised |-> tlp.raised]
             ELSE AutomapLoop(Tail(order), at, tlp.self,
                              IF PropertiesIntersect(at[Head(order)], tlp.value)
                              THEN matches \cup {Head(order)} ELSE matches)

\* variant: automap only fills in files that have no match yet
add_matches_by_property_automap_if_unmatched(self, smgr) ==
    IF self.matches # {} THEN [self |-> self, raised |-> ""]
    ELSE AutomapLoop(smgr.order, smgr.at, self, {})

add_matches_by_property_automap(self, smgr) == AutomapLoop(smgr.order, smgr.at, self, {})

\* InstanceFileManager.__init__ over the files find_files returned
InstanceFileManagerInit(found, schema_mapping) ==
    [i \in 1..Len(found) |->
        InstanceFile(found[i],
                     IF found[i].filename \in DOMAIN schema_mapping
                     THEN {schema_mapping[found[i].filename][j] :
                             j \in 1..Len(schema_mapping[found[i].filename])}
                     ELSE {})]

\* InstanceFileManager.add_matches_by_property_automap: the instances from
\* position i on; an exception leaves the later ones untouched
RECURSIVE AutomapAll(_, _, _)
AutomapAll(insts, i, smgr) ==
    IF i > Len(insts) THEN [instances |-> insts, raised |-> ""]
    ELSE LET one == add_matches_by_property_automap(insts[i], smgr)
         IN  IF one.raised # ""
             THEN [instances |-> [insts EXCEPT ![i] = one.self], raised |-> one.raised]
             ELSE AutomapAll([insts EXCEPT ![i] = one.self], i + 1, smgr)

\* InstanceFile.validate: every loaded schema whose key is in matches is
\* run on the content, its results are collected and then cleared
RECURSIVE InstanceValidateLoop(_, _, _, _, _)
InstanceValidateLoop(order, smgr, self, strict, errs) ==
    IF order = <<>> THEN [smgr |-> smgr, results |-> errs, raised |-> ""]
    ELSE IF Head(order) \notin self.matches
    THEN InstanceValidateLoop(Tail(order), smgr, self, strict, errs)
    ELSE LET Collect(got) ==
                 InstanceValidateLoop(Tail(order),
                                      DictSet(smgr, Head(order), clear_results(got.self)),
                                      self, strict, errs \o got.ret)
             Checked(out) ==
                 IF out.raised # "" THEN [smgr |-> smgr, results |-> errs, raised |-> out.raised]
                 ELSE Collect(GetResults(out.self))
         IN  Checked(Validate(smgr.at[Head(order)], self.content, strict))

InstanceValidate(self, smgr, strict) ==
    InstanceValidateLoop(smgr.order, smgr, self, strict, <<>>)

\* --------------------------------------------------------- SchemaManager API
\* an argument that should be a list of schema ids, or the value of a host
\* variable: whether the variable is defined, the type of its value
\* ("list", "bool" or "str") and the value
Setting(set, kind, list, bool) == [set |-> set, kind |-> kind, list |-> list, bool |-> bool]
Unset == Setting(FALSE, "none", <<>>, FALSE)
ListSetting(ids) == Setting(TRUE, "list", ids, FALSE)
BoolSetting(b) == Setting(TRUE, "bool", <<>>, b)
StrSetting == Setting(TRUE, "str", <<>>, FALSE)

\* validate_schemas_exist that names the last missing id, not the first
validate_schemas_exist_last(smgr, schema_ids) ==
    IF schema_ids.kind # "list" THEN [raised |-> "TypeError", schema_id |-> None]
    ELSE LET missing == SelectSeq(schema_ids.list, LAMBDA id : id \notin DictKeys(smgr))
         IN  IF missing = <<>> THEN [raised |-> "", schema_id |-> None]
             ELSE [raised |-> "SchemaNotDefined", schema_id |-> missing[Len(missing)]]

\* SchemaManager.validate_schemas_exist: the exception raised ("" for none)
\* and the id it names; self.schemas is only read
validate_schemas_exist(smgr, schema_ids) ==
    IF schema_ids.kind # "list" THEN [raised |-> "TypeError", schema_id |-> None]
    ELSE LET missing == SelectSeq(schema_ids.list, LAMBDA id : id \notin DictKeys(smgr))
         IN  IF missing = <<>> THEN [raised |-> "", schema_id |-> None]
             ELSE [raised |-> "SchemaNotDefined", schema_id |-> Head(missing)]

\* --------------------------------------------------------- AnsibleInventory
\* a host of the inventory: its name, its variables without those the
\* cleanup removes, and the three settings among its variables
Host(name, hostvars, schema_ids, strictSetting, automapSetting) ==
    [name |-> name, vars |-> hostvars, schema_enforcer_schema_ids |-> schema_ids,
     schema_enforcer_strict |-> strictSetting,
     schema_enforcer_automap_default |-> automapSetting]

\* get_clean_host_vars: the settings and the keys Ansible inserts are
\* deleted; no host defines magic_vars_to_evaluate
get_clean_host_vars(host) == host.vars

Settings(raised, declared, isStrict, isAutomap) ==
    [raised |-> raised, declared_schema_ids |-> declared, strict |-> isStrict,
     automap |-> isAutomap]

\* get_schema_validation_settings without the check on the number of
\* declared ids
get_schema_validation_settings_any_number(host) ==
    LET ids == host.schema_enforcer_schema_ids
        st == host.schema_enforcer_strict
        am == host.schema_enforcer_automap_default
    IN  IF (ids.set /\ ids.kind # "list") \/ (st.set /\ st.kind # "bool")
           \/ (am.set /\ am.kind # "bool")
        THEN Settings("TypeError", <<>>, FALSE, TRUE)
        ELSE Settings("", IF ids.set THEN ids.list ELSE <<>>,
                      IF st.set THEN st.bool ELSE FALSE, IF am.set THEN am.bool ELSE TRUE)

get_schema_validation_settings(host) ==
    LET ids == host.schema_enforcer_schema_ids
        st == host.schema_enforcer_strict
        am == host.schema_enforcer_automap_default
        declared_schema_ids == IF ids.set THEN ids.list ELSE <<>>
        isStrict == IF st.set THEN st.bool ELSE FALSE
        isAutomap == IF am.set THEN am.bool ELSE TRUE
    IN  IF ids.set /\ ids.kind # "list" THEN Settings("TypeError", <<>>, FALSE, TRUE)
        ELSE IF st.set /\ st.kind # "bool" THEN Settings("TypeError", <<>>, FALSE, TRUE)
        ELSE IF am.set /\ am.kind # "bool" THEN Settings("TypeError", <<>>, FALSE, TRUE)
        ELSE IF isStrict /\ declared_schema_ids = <<>>
        THEN Settings("ValueError", <<>>, FALSE, TRUE)
        ELSE IF isStrict /\ declared_schema_ids # <<>> /\ Len(declared_schema_ids) > 1
        THEN Settings("ValueError", <<>>, FALSE, TRUE)
        ELSE Settings("", declared_schema_ids, isStrict, isAutomap)

\* an entry of applicable_schemas: the validator and the key it has in
\* smgr.schemas
Applicable(key, schema) == [key |-> key, schema |-> schema]

\* for schema_id in declared_schema_ids: applicable_schemas[schema_id] = ...
RECURSIVE DeclaredLoop(_, _, _)
DeclaredLoop(declared, smgr, applicable) ==
    IF declared = <<>> THEN applicable
    ELSE DeclaredLoop(Tail(declared), smgr,
                      DictSet(applicable, Head(declared),
                              Applicable(Head(declared), smgr.at[Head(declared)])))

\* for schema in smgr.schemas.values(): if key in schema.top_level_properties
RECURSIVE AutomapKeyLoop(_, _, _, _)
AutomapKeyLoop(key, order, smgr, applicable) ==
    IF order = <<>> THEN applicable
    ELSE AutomapKeyLoop(key, Tail(order), smgr,
                        IF key \in smgr.at[Head(order)].top_level_properties
                        THEN DictSet(applicable, smgr.at[Head(order)].id,
                                     Applicable(Head(order), smgr.at[Head(order)]))
                        ELSE applicable)

\* for key in hostvars.keys()
RECURSIVE ApplicableLoop(_, _, _, _, _)
ApplicableLoop(keys, smgr, declared_schema_ids, isAutomap, applicable) ==
    IF keys = <<>> THEN [ret |-> applicable, raised |-> ""]
    ELSE IF declared_schema_ids # <<>>
    THEN IF \E i \in 1..Len(declared_schema_ids) : declared_schema_ids[i] \notin DictKeys(smgr)
         THEN [ret |-> applicable, raised |-> "KeyError"]
         ELSE ApplicableLoop(Tail(keys), smgr, declared_schema_ids, isAutomap,
                             DeclaredLoop(declared_schema_ids, smgr, applicable))
    ELSE IF isAutomap
    THEN ApplicableLoop(Tail(keys), smgr, declared_schema_ids, isAutomap,
                        AutomapKeyLoop(Head(keys), smgr.order, smgr, applicable))
    ELSE ApplicableLoop(Tail(keys), smgr, declared_schema_ids, isAutomap, applicable)

get_applicable_schemas(hostvars, smgr, declared_schema_ids, isAutomap) ==
    ApplicableLoop(SeqOfSet(DOMAIN hostvars.map), smgr, declared_schema_ids, isAutomap,
                   EmptyDict)

\* data.update({var: hostvars.get(var)}) for the top-level properties of the
\* schema: a variable the host lacks is there with the value None
HostData(hostvars, schema_obj, isStrict) ==
    IF isStrict THEN hostvars
    ELSE [hostvars EXCEPT
            !.map = [var \in schema_obj.top_level_properties |->
                        IF var \in DOMAIN hostvars.map THEN hostvars.map[var] ELSE NullV],
            !.okLax = hostvars.okLax
                      /\ schema_obj.top_level_properties \subseteq DOMAIN hostvars.map]

WithHost(r, hostname) == [r EXCEPT !.instance_type = "HOST", !.instance_hostname = hostname]

\* for schema_obj in applicable_schemas.values(): validate, read and clear
RECURSIVE HostSchemasLoop(_, _, _, _, _, _)
HostSchemasLoop(order, applicable, smgr, host, isStrict, results) ==
    IF order = <<>> THEN [smgr |-> smgr, results |-> results, raised |-> ""]
    ELSE LET key == applicable.at[Head(order)].key
             Collect(got) ==
                 HostSchemasLoop(Tail(order), applicable,
                                 DictSet(smgr, key, clear_results(got.self)), host, isStrict,
                                 results \o [i \in 1..Len(got.ret) |->
                                               WithHost(got.ret[i], host.name)])
             Checked(out) ==
                 IF out.raised # "" THEN [smgr |-> smgr, results |-> results, raised |-> out.raised]
                 ELSE Collect(GetResults(out.self))
         IN  Checked(Validate(smgr.at[key],
                              HostData(get_clean_host_vars(host), smgr.at[key], isStrict),
                              isStrict))

\* the body of `for host in hosts` in the ansible command
ValidateHost(host, smgr) ==
    LET Run(settings, applicable) ==
            HostSchemasLoop(applicable.ret.order, applicable.ret, smgr, host,
                            settings.strict, <<>>)
        Exist(settings, exist) ==
            IF exist.raised # "" THEN [smgr |-> smgr, results |-> <<>>, raised |-> exist.raised]
            ELSE Run(settings,
                     get_applicable_schemas(get_clean_host_vars(host), smgr,
                                            settings.declared_schema_ids, settings.automap))
        Configured(settings) ==
            IF settings.raised # ""
            THEN [smgr |-> smgr, results |-> <<>>, raised |-> settings.raised]
            ELSE Exist(settings,
                       validate_schemas_exist(smgr, ListSetting(settings.declared_schema_ids)))
    IN  Configured(get_schema_validation_settings(host))

\* AnsibleInventory.print_schema_mapping: the exception a host raises
RECURSIVE print_schema_mapping(_, _, _)
print_schema_mapping(hosts, limit, smgr) ==
    IF hosts = <<>> THEN ""
    ELSE IF limit # None /\ Head(hosts).name # limit
    THEN print_schema_mapping(Tail(hosts), limit, smgr)
    ELSE LET settings == get_schema_validation_settings(Head(hosts))
             exist == validate_schemas_exist(smgr, ListSetting(settings.declared_schema_ids))
         IN  IF settings.raised # "" THEN settings.raised
             ELSE IF exist.raised # "" THEN exist.raised
             ELSE print_schema_mapping(Tail(hosts), limit, smgr)

\* -------------------------------------------------------------- find_files
\* An absolute path is the sequence of the pieces of its text: "/" and
\* pieces of names, none of which begins another.  The text of one path
\* begins the text of another exactly when its pieces begin the other's.
StartsWith(path, prefix) ==
    /\ Len(prefix) <= Len(path)
    /\ SubSeq(path, 1, Len(prefix)) = prefix

\* the directory is dir or lies below it
IsUnder(path, dir) == path = dir \/ StartsWith(path, dir \o <<"/">>)

\* a file of a directory: its name and the extension os.path.splitext finds
TreeFile(name, ext) == [name |-> name, ext |-> ext]

\* a directory of the file system: its absolute path and its files
TreeDir(path, dirFiles) == [path |-> path, files |-> dirFiles]

\* a search directory as configured: whether its text holds a "/", and the
\* absolute path of the directory it names
SearchDir(slash, path) == [slash |-> slash, path |-> path]

\* is_part_of_excluded_dirs that compares whole path components
is_part_of_excluded_dirs_by_component(current_dir, excluded_directories) ==
    \E i \in 1..Len(excluded_directories) : IsUnder(current_dir, excluded_directories[i])

\* is_part_of_excluded_dirs: abs_current.startswith(abs_excluded)
is_part_of_excluded_dirs(current_dir, excluded_directories) ==
    \E i \in 1..Len(excluded_directories) : StartsWith(current_dir, excluded_directories[i])

\* for file in files: the extension is recognized and the name not excluded
FilesOfDir(dir, file_extensions, excluded_filenames) ==
    LET kept == SelectSeq(dir.files, LAMBDA file : /\ file.ext \in file_extensions
                                                  /\ file.name \notin excluded_filenames)
    IN  [i \in 1..Len(kept) |-> <<dir.path, kept[i].name>>]

\* for root, dirs, files in os.walk(search_directory)
RECURSIVE WalkLoop(_, _, _, _, _)
WalkLoop(walk, search_directory, file_extensions, excluded_filenames, excluded_directories) ==
    IF walk = <<>> THEN <<>>
    ELSE (IF \/ ~IsUnder(Head(walk).path, search_directory)
             \/ is_part_of_excluded_dirs(Head(walk).path, excluded_directories)
          THEN <<>>
          ELSE FilesOfDir(Head(walk), file_extensions, excluded_filenames))
         \o WalkLoop(Tail(walk), search_directory, file_extensions, excluded_filenames,
                     excluded_directories)

\* for search_directory in search_directories: a name without "/" is looked
\* up as a python package, and skipped with an error when there is none
RECURSIVE find_files(_, _, _, _, _)
find_files(file_extensions, search_directories, excluded_filenames, excluded_directories, tree) ==
    IF search_directories = <<>> THEN <<>>
    ELSE (IF ~Head(search_directories).slash THEN <<>>
          ELSE WalkLoop(tree, Head(search_directories).path, file_extensions,
                        excluded_filenames, excluded_directories))
         \o find_files(file_extensions, Tail(search_directories), excluded_filenames,
                       excluded_directories, tree)

\* ------------------------------------------------------------ test fixtures
\* the names find_files gives the data files of a directory
DataFileName(i) == IF i = 1 THEN "d1.yml" ELSE IF i = 2 THEN "d2.yml" ELSE "d3.yml"

\* A file of a fixture directory, by extension: a data file holds structured
\* data, a results file a YAML document that may lack the key `results`.
Extensions == <<"yml", "yaml", "json">>

NoFile == [exists |-> FALSE, content |-> NoneData, hasResults |-> FALSE, results |-> <<>>]
DataDoc(content) == [exists |-> TRUE, content |-> content, hasResults |-> FALSE, results |-> <<>>]
ResultsDoc(hasResults, results) ==
    [exists |-> TRUE, content |-> NoneData, hasResults |-> hasResults, results |-> results]

NoFiles == [e \in {"yml", "yaml", "json"} |-> NoFile]
OneFile(ext, file) == [NoFiles EXCEPT ![ext] = file]

\* a directory of <test_directory>/<schema>/invalid/
TestDir(name, data, results) == [name |-> name, data |-> data, results |-> results]

\* the fixtures of one schema: valid/ with its data files, invalid/ with its
\* directories in the order os.walk lists them
Fixtures(hasValid, validFiles, hasInvalid, dirs) ==
    [hasValid |-> hasValid, valid |-> validFiles, hasInvalid |-> hasInvalid, invalid |-> dirs]

NoFixtures == Fixtures(FALSE, <<>>, FALSE, <<>>)

FixturesOf(tree, short_schema_id) ==
    IF short_schema_id \in DOMAIN tree THEN tree[short_schema_id] ELSE NoFixtures

\* warn(f"{text} {path}. Skipping...")
Warning(text, path) == <<text, path>>

\* find_file with the extensions tried in the opposite order
find_file_json_first(files) ==
    LET there == SelectSeq(<<"json", "yaml", "yml">>, LAMBDA e : files[e].exists)
    IN  IF there = <<>> THEN None ELSE Head(there)

\* utils.find_file: the first extension, in the order yml, yaml, json, under
\* which the file exists
find_file(files) ==
    LET there == SelectSeq(Extensions, LAMBDA e : files[e].exists)
    IN  IF there = <<>> THEN None ELSE Head(there)

\* a scalar of a YAML document: its text and whether it is double-quoted
Scalar(quoted, text) == [quoted |-> quoted, text |-> text]
DQ(s) == Scalar(TRUE, s)

\* result.model_dump(exclude_unset=True, exclude_none=True): the strings of
\* the fields that were set
ResultDict(r) ==
    [keys |-> IF passed(r) THEN {"result", "schema_id"}
              ELSE {"result", "schema_id", "absolute_path", "message"},
     result |-> PathKey(r.result),
     schema_id |-> PathKey(r.schema_id),
     absolute_path |-> [i \in 1..Len(r.absolute_path) |-> PathKey(r.absolute_path[i])],
     message |-> PathKey(r.message)]

\* JsonSchema.validate_to_dict; the plugin classes have no such method
validate_to_dict(self, data) ==
    IF self.kind # "jsonschema" THEN [self |-> self, ret |-> <<>>, raised |-> "AttributeError"]
    ELSE LET Dicts(out) ==
                 [self |-> out.self, ret |-> [i \in 1..Len(out.ret) |-> ResultDict(out.ret[i])],
                  raised |-> ""]
         IN  Dicts(JsonSchemaValidate(self, data, FALSE))

\* ensure_strings_have_quotes_mapping: every string becomes double-quoted
ensure_strings_have_quotes(d) ==
    [keys |-> d.keys,
     result |-> DQ(d.result.s),
     schema_id |-> DQ(d.schema_id.s),
     absolute_path |-> [i \in 1..Len(d.absolute_path) |-> DQ(d.absolute_path[i].s)],
     message |-> DQ(d.message.s)]

\* dump_data_to_yaml({"results": results}, result_file)
dump_data_to_yaml(results) ==
    ResultsDoc(TRUE, [i \in 1..Len(results) |-> ensure_strings_have_quotes(results[i])])

\* the YAML loader: a quoted scalar is a string, a plain one made of digits
\* an integer
LoadScalar(y) ==
    IF y.quoted THEN PathKey(y.text)
    ELSE IF y.text = "0" THEN PathIdx(0)
    ELSE IF y.text = "1" THEN PathIdx(1)
    ELSE IF y.text = "2" THEN PathIdx(2)
    ELSE PathKey(y.text)

\* load_file on a results file, then json.loads(json.dumps(...["results"]))
load_results(file) ==
    [i \in 1..Len(file.results) |->
        [keys |-> file.results[i].keys,
         result |-> LoadScalar(file.results[i].result),
         schema_id |-> LoadScalar(file.results[i].schema_id),
         absolute_path |-> [k \in 1..Len(file.results[i].absolute_path) |->
                              LoadScalar(file.results[i].absolute_path[k])],
         message |-> LoadScalar(file.results[i].message)]]

\* the order of the words of a message, as strings compare
WordOrder == <<"Additional properties are not allowed", "a", "array", "b",
               "is not of type", "object", "string", "x">>

WordRank(w) ==
    IF \E i \in 1..Len(WordOrder) : WordOrder[i] = w
    THEN CHOOSE i \in 1..Len(WordOrder) : WordOrder[i] = w
    ELSE Len(WordOrder) + 1

RECURSIVE MessageLess(_, _)
MessageLess(m1, m2) ==
    IF m2 = <<>> THEN FALSE
    ELSE IF m1 = <<>> THEN TRUE
    ELSE IF WordRank(Head(m1)) # WordRank(Head(m2)) THEN WordRank(Head(m1)) < WordRank(Head(m2))
    ELSE MessageLess(Tail(m1), Tail(m2))

\* i.get("message", "")
MessageOf(d) == IF "message" \in d.keys THEN d.message.s ELSE <<>>

\* sorted(results, key=lambda i: i.get("message", "")): stable
RECURSIVE InsertByMessage(_, _)
InsertByMessage(sorted, d) ==
    IF sorted = <<>> THEN <<d>>
    ELSE IF MessageLess(MessageOf(d), MessageOf(Head(sorted))) THEN <<d>> \o sorted
    ELSE <<Head(sorted)>> \o InsertByMessage(Tail(sorted), d)

RECURSIVE SortedByMessage(_)
SortedByMessage(results) ==
    IF results = <<>> THEN <<>>
    ELSE InsertByMessage(SortedByMessage(SubSeq(results, 1, Len(results) - 1)),
                         results[Len(results)])

\* a dict holds the keys that were set; the other fields do not compare
SameDict(d1, d2) ==
    /\ d1.keys = d2.keys
    /\ d1.result = d2.result
    /\ d1.schema_id = d2.schema_id
    /\ "absolute_path" \in d1.keys => d1.absolute_path = d2.absolute_path
    /\ "message" \in d1.keys => d1.message = d2.message

SameResults(r1, r2) ==
    /\ Len(r1) = Len(r2)
    /\ \A i \in 1..Len(r1) : SameDict(r1[i], r2[i])

\* schema_id.split("/")[1] if "/" in schema_id else schema_id: the ids of
\* the schema documents and plugin classes hold no "/"
ShortId(schema_id) == schema_id

\* SchemaManager._get_test_dir_absolute: ValueError for an id that is not
\* loaded, sys.exit(1) when the directory does not exist
get_test_dir_absolute(smgr, test_type, schema_id, tree) ==
    IF schema_id \notin DictKeys(smgr) THEN "ValueError"
    ELSE IF test_type = "valid" /\ ~FixturesOf(tree, ShortId(schema_id)).hasValid
    THEN "SystemExit"
    ELSE IF test_type = "invalid" /\ ~FixturesOf(tree, ShortId(schema_id)).hasInvalid
    THEN "SystemExit"
    ELSE ""

MismatchMessage(file) ==
    <<"Invalid test results do not match expected test results from", file>>

\* test_schema_invalid that stops the run at the first mismatch
RECURSIVE TestInvalidLoopAborting(_, _, _, _)
TestInvalidLoopAborting(dirs, self, schema_id, results) ==
    IF dirs = <<>> THEN [self |-> self, results |-> results, raised |-> "", warned |-> <<>>]
    ELSE LET dir == Head(dirs)
             data_file == find_file(dir.data)
             expected_results_file == find_file(dir.results)
             Skip(text, rest) == [rest EXCEPT !.warned = <<Warning(text, dir.name)>> \o @]
             Compare(tmp) ==
                 IF tmp.raised # ""
                 THEN [self |-> self, results |-> results, raised |-> tmp.raised, warned |-> <<>>]
                 ELSE IF ~dir.results[expected_results_file].hasResults
                 THEN [self |-> tmp.self, results |-> results, raised |-> "KeyError",
                       warned |-> <<>>]
                 ELSE IF ~SameResults(SortedByMessage(tmp.ret),
                                      SortedByMessage(load_results(dir.results[expected_results_file])))
                 THEN [self |-> tmp.self, results |-> results, raised |-> "AssertionError",
                       warned |-> <<>>]
                 ELSE TestInvalidLoopAborting(Tail(dirs), tmp.self, schema_id,
                         Append(results,
                                WithInstance(ValidationResult(RESULT_PASS, schema_id, NoMessage, <<>>),
                                             "TEST", dir.name, "invalid")))
         IN  IF data_file = None \/ expected_results_file = None
             THEN Skip(IF data_file = None THEN "Could not find data file"
                       ELSE "Could not find expected_results_file",
                       TestInvalidLoopAborting(Tail(dirs), clear_results(self), schema_id, results))
             ELSE Compare(validate_to_dict(clear_results(self), dir.data[data_file].content))

\* for test_dir in test_dirs: of test_schema_invalid
RECURSIVE TestInvalidLoop(_, _, _, _)
TestInvalidLoop(dirs, self, schema_id, results) ==
    IF dirs = <<>> THEN [self |-> self, results |-> results, raised |-> "", warned |-> <<>>]
    ELSE LET dir == Head(dirs)
             data_file == find_file(dir.data)
             expected_results_file == find_file(dir.results)
             Skip(text, rest) == [rest EXCEPT !.warned = <<Warning(text, dir.name)>> \o @]
             Compare(tmp) ==
                 IF tmp.raised # ""
                 THEN [self |-> self, results |-> results, raised |-> tmp.raised, warned |-> <<>>]
                 ELSE IF ~dir.results[expected_results_file].hasResults
                 THEN [self |-> tmp.self, results |-> results, raised |-> "KeyError",
                       warned |-> <<>>]
                 ELSE TestInvalidLoop(Tail(dirs), tmp.self, schema_id,
                         Append(results,
                                WithInstance(
                                   IF SameResults(
                                        SortedByMessage(tmp.ret),
                                        SortedByMessage(
                                          load_results(dir.results[expected_results_file])))
                                   THEN ValidationResult(RESULT_PASS, schema_id, NoMessage, <<>>)
                                   ELSE ValidationResult(RESULT_FAIL, schema_id,
                                                         MismatchMessage(expected_results_file),
                                                         <<>>),
                                   "TEST", dir.name, "invalid")))
         IN  IF data_file = None \/ expected_results_file = None
             THEN Skip(IF data_file = None THEN "Could not find data file"
                       ELSE "Could not find expected_results_file",
                       TestInvalidLoop(Tail(dirs), clear_results(self), schema_id, results))
             ELSE Compare(validate_to_dict(clear_results(self), dir.data[data_file].content))

\* SchemaManager.test_schema_invalid
test_schema_invalid(smgr, schema_id, tree) ==
    IF schema_id \notin DictKeys(smgr)
    THEN [smgr |-> smgr, results |-> <<>>, raised |-> "ValueError", warned |-> <<>>]
    ELSE IF get_test_dir_absolute(smgr, "invalid", schema_id, tree) # ""
    THEN [smgr |-> smgr, results |-> <<>>,
          raised |-> get_test_dir_absolute(smgr, "invalid", schema_id, tree),
          warned |-> <<>>]
    ELSE LET Ret(run) ==
                 [smgr |-> DictSet(smgr, schema_id, run.self), results |-> run.results,
                  raised |-> run.raised, warned |-> run.warned]
         IN  Ret(TestInvalidLoop(FixturesOf(tree, ShortId(schema_id)).invalid,
                                 smgr.at[schema_id], schema_id, <<>>))

\* the objects that a list of references into schema._results names
Deref(self, refs) == [k \in 1..Len(refs) |-> self.results[refs[k]]]

\* for root, filename in valid_files: of test_schema_valid.  schema.validate
\* returns schema._results itself, which is never cleared here: the inner
\* for labels every object of that list with the current file and appends
\* a reference to it to results.  schema.validate of a plugin class returns
\* None, which the inner for cannot iterate
RECURSIVE TestValidLoop(_, _, _, _)
TestValidLoop(validFiles, i, self, results) ==
    IF i > Len(validFiles)
    THEN [self |-> self, results |-> Deref(self, results), raised |-> ""]
    ELSE LET Extend(out) ==
                 IF out.raised # "" \/ out.retNone
                 THEN [self |-> self, results |-> <<>>,
                       raised |-> IF out.raised # "" THEN out.raised ELSE "TypeError"]
                 ELSE TestValidLoop(validFiles, i + 1,
                         [out.self EXCEPT !.results =
                             [k \in 1..Len(out.ret) |->
                                WithInstance(out.ret[k], "TEST", DataFileName(i), "valid")]],
                         results \o [k \in 1..Len(out.ret) |-> k])
         IN  Extend(Validate(self, validFiles[i], FALSE))

\* SchemaManager.test_schema_valid
test_schema_valid(smgr, schema_id, tree) ==
    IF schema_id \notin DictKeys(smgr)
    THEN [smgr |-> smgr, results |-> <<>>, raised |-> "KeyError"]
    ELSE IF get_test_dir_absolute(smgr, "valid", schema_id, tree) # ""
    THEN [smgr |-> smgr, results |-> <<>>,
          raised |-> get_test_dir_absolute(smgr, "valid", schema_id, tree)]
    ELSE LET Ret(run) ==
                 [smgr |-> DictSet(smgr, schema_id, run.self), results |-> run.results,
                  raised |-> run.raised]
         IN  Ret(TestValidLoop(FixturesOf(tree, ShortId(schema_id)).valid, 1,
                               smgr.at[schema_id], <<>>))

\* for schema_id, schema in self.iter_schemas(): of test_schemas; a plugin
\* class has no check_if_valid
RECURSIVE TestSchemasLoop(_, _, _, _)
TestSchemasLoop(order, smgr, tree, results) ==
    IF order = <<>> THEN [smgr |-> smgr, results |-> results, raised |-> "", warned |-> <<>>]
    ELSE LET schema_id == Head(order)
             AfterInvalid(valid_results, invalid_results) ==
                 IF invalid_results.raised # ""
                 THEN [smgr |-> smgr, results |-> results, raised |-> invalid_results.raised,
                       warned |-> invalid_results.warned]
                 ELSE [TestSchemasLoop(Tail(order), invalid_results.smgr, tree,
                                       results \o check_if_valid(smgr.at[schema_id])
                                               \o valid_results.results
                                               \o invalid_results.results)
                       EXCEPT !.warned = invalid_results.warned \o @]
             AfterValid(valid_results) ==
                 IF valid_results.raised # ""
                 THEN [smgr |-> smgr, results |-> results, raised |-> valid_results.raised,
                       warned |-> <<>>]
                 ELSE AfterInvalid(valid_results,
                                   test_schema_invalid(valid_results.smgr, schema_id, tree))
         IN  IF smgr.at[schema_id].kind # "jsonschema"
             THEN [smgr |-> smgr, results |-> results, raised |-> "AttributeError",
                   warned |-> <<>>]
             ELSE AfterValid(test_schema_valid(smgr, schema_id, tree))

\* SchemaManager.test_schemas: error_exists is computed and dropped
test_schemas(smgr, tree) == TestSchemasLoop(smgr.order, smgr, tree, <<>>)

\* SchemaManager._ensure_results_invalid: sys.exit(1) on a PASS
ensure_results_invalid(results) ==
    IF \E i \in 1..Len(results) : results[i].result = PathKey(RESULT_PASS)
    THEN "SystemExit" ELSE ""

\* for test_dir in test_dirs: of generate_invalid_tests_expected; without a
\* data file load_file(None) raises after the warning
RECURSIVE GenerateLoop(_, _, _, _)
GenerateLoop(dirs, i, self, written) ==
    IF i > Len(dirs) THEN [self |-> self, dirs |-> written, raised |-> "", warned |-> <<>>]
    ELSE LET data_file == find_file(dirs[i].data)
             Write(out) ==
                 IF out.raised # ""
                 THEN [self |-> self, dirs |-> written, raised |-> out.raised, warned |-> <<>>]
                 ELSE IF ensure_results_invalid(out.ret) # ""
                 THEN [self |-> out.self, dirs |-> written,
                       raised |-> ensure_results_invalid(out.ret), warned |-> <<>>]
                 ELSE GenerateLoop(dirs, i + 1, out.self,
                         [written EXCEPT ![i].results["yml"] = dump_data_to_yaml(out.ret)])
         IN  IF data_file = None
             THEN [self |-> clear_results(self), dirs |-> written, raised |-> "AttributeError",
                   warned |-> <<Warning("Could not find data file", dirs[i].name)>>]
             ELSE Write(validate_to_dict(clear_results(self), dirs[i].data[data_file].content))

\* SchemaManager.generate_invalid_tests_expected: the fixtures afterwards
generate_invalid_tests_expected(smgr, schema_id, tree) ==
    IF schema_id \notin DictKeys(smgr)
    THEN [tree |-> tree, raised |-> "ValueError", warned |-> <<>>]
    ELSE IF get_test_dir_absolute(smgr, "invalid", schema_id, tree) # ""
    THEN [tree |-> tree, raised |-> get_test_dir_absolute(smgr, "invalid", schema_id, tree),
          warned |-> <<>>]
    ELSE LET Ret(run) ==
                 [tree |-> [tree EXCEPT ![ShortId(schema_id)].invalid = run.dirs],
                  raised |-> run.raised, warned |-> run.warned]
         IN  Ret(GenerateLoop(tree[ShortId(schema_id)].invalid, 1, smgr.at[schema_id],
                              tree[ShortId(schema_id)].invalid))

\* ------------------------------------------------------------- universes
Ids == {"s1", "s2"}

MetaError == Draft7Error(<<"is not of type", "object">>, <<PathKey("properties")>>)

\* schema documents: with or without `$id`, with or without `properties`,
\* valid or not against the meta-schema
DocBodies ==
    {SchemaDoc("", id, TRUE, [n \in {"a"} |-> PropString], TRUE, errs) :
        id \in {"s1", None}, errs \in {<<>>, <<MetaError>>}}
    \cup
    {SchemaDoc("", id, TRUE, [n \in {"b"} |-> PropString], TRUE, <<>>) : id \in Ids}
    \cup
    {SchemaDoc("", "s1", FALSE, EmptyMap, TRUE, errs) : errs \in {<<>>, <<MetaError>>}}

SchemaFileName(i) == IF i = 1 THEN "f1.yml" ELSE IF i = 2 THEN "f2.yml" ELSE "f3.yml"

\* what find_files returns for the schema directory, in discovery order
SchemaFiles ==
    {[i \in 1..Len(q) |-> [q[i] EXCEPT !.filename = SchemaFileName(i)]] :
        q \in SeqsUpTo(DocBodies, MaxFiles)}

ErrorText == <<"Less than two core interfaces">>

PluginClasses ==
    {PluginClass("CheckA", "jmespath", None, "CheckA", {"a"}, TRUE, Literal(JInt(2)), "gte", ErrorText),
     PluginClass("CheckS1", "jmespath", "s1", None, {"b"}, TRUE, Literal(JInt(2)), "gte", ErrorText),
     PluginClass("CheckL", "jmespath", None, "CheckL", {"a"}, FALSE, Literal(JInt(2)), "gte", ErrorText),
     PluginClass("CheckB", "jmespath", None, "interfaces", {"a"}, TRUE, Literal(JInt(2)), "gte",
                 ErrorText),
     PluginClass("Model", "pydantic", None, None, {}, TRUE, NoRight, None, NoMessage)}

PluginSeqs == SeqsUpTo(PluginClasses, MaxPlugins)

\* config.pydantic_validators: nothing, manager1, or manager1 and manager2
manager1 == PydanticManager("", <<"Hostname", "Interfaces">>)
manager2 == PydanticManager("pydantic", <<"Hostname", "Interfaces", "Dns">>)

PydanticValidators == {<<>>, <<manager1>>, <<manager1, manager2>>}

\* the schema directories and validator directories the data files are
\* checked against: no schema file, one, or two with different ids, and at
\* most one validator class
SchemaDirs ==
    {<<fs, ps>> :
        fs \in {<<>>,
                <<SchemaDoc(SchemaFileName(1), "s1", TRUE, [n \in {"a"} |-> PropString],
                            TRUE, <<>>)>>,
                <<SchemaDoc(SchemaFileName(1), "s1", TRUE, [n \in {"a"} |-> PropString],
                            TRUE, <<>>),
                  SchemaDoc(SchemaFileName(2), "s2", TRUE, [n \in {"b"} |-> PropString],
                            TRUE, <<>>)>>},
        ps \in {<<>>} \cup {<<c>> : c \in PluginClasses}}

Decorated == DecoratorLine(<<Item(FALSE, "s1"), Item(TRUE, "s2")>>)

Texts == SeqsUpTo({Decorated, BodyLine}, MaxLines)

HasBody(text) == \E i \in 1..Len(text) : ~text[i].comment

\* what the jmespath queries and the typed model find in a data file
FileData(d) == [d EXCEPT !.search = [q \in Queries |-> JInt(1)], !.okLax = TRUE]

Contents == {FileData(MapData([n \in {k} |-> StrV])) : k \in {"a", "b"}} \cup {NumData(5)}

DataFiles ==
    {DataFile("hostvars", "", text, content) :
        text \in {t \in Texts : HasBody(t)}, content \in Contents}
    \cup
    {DataFile("hostvars", "", text, NoneData) : text \in {t \in Texts : ~HasBody(t)}}

\* what find_files returns for the search directories
FoundFiles ==
    {[i \in 1..Len(q) |-> [q[i] EXCEPT !.filename = DataFileName(i)]] :
        q \in SeqsUpTo(DataFiles, MaxInstances)}

\* config.schema_mapping
SchemaMappings == {[f \in {} |-> <<>>], [f \in {DataFileName(1)} |-> <<"s1">>]}

Commands == {"validate", "schema", "ansible"}

\* the variables of a host once cleaned
HostVars ==
    {FileData(MapData(map)) :
        map \in {EmptyMap, [n \in {"a"} |-> StrV], [n \in {"a"} |-> NumV],
                 [n \in {"b"} |-> StrV], [n \in {"a", "b"} |-> StrV]}}

\* lists of schema ids; no schema directory defines s9
IdLists == SeqsUpTo({"s1", "s2", "s9"}, MaxIds)

IdSettings == {Unset, StrSetting} \cup {ListSetting(ids) : ids \in IdLists}

BoolSettings == {Unset, StrSetting, BoolSetting(TRUE), BoolSetting(FALSE)}

\* every host the inventory may hold
Hosts ==
    {Host("host1", hv, ids, st, am) :
        hv \in HostVars, ids \in IdSettings, st \in BoolSettings, am \in BoolSettings}

HostName(i) == "host" \o IntToStr(i)

HostOf(map, ids, st, am) == Host("host1", FileData(MapData(map)), ids, st, am)

\* the hosts of the inventories given to the ansible command
InventoryHosts ==
    {HostOf([n \in {"a"} |-> StrV], Unset, Unset, Unset),
     HostOf([n \in {"a"} |-> NumV], Unset, Unset, Unset),
     HostOf([n \in {"a", "b"} |-> StrV], ListSetting(<<"s1">>), BoolSetting(TRUE), Unset),
     HostOf([n \in {"a"} |-> StrV], ListSetting(<<"s9">>), Unset, Unset),
     HostOf([n \in {"a"} |-> StrV], Unset, BoolSetting(TRUE), Unset),
     HostOf(EmptyMap, ListSetting(<<"s1">>), Unset, Unset),
     HostOf([n \in {"a"} |-> StrV], StrSetting, Unset, Unset),
     HostOf([n \in {"b"} |-> StrV], ListSetting(<<"s1">>), Unset, BoolSetting(FALSE))}

\* what get_hosts_containing returns
Inventories ==
    {[i \in 1..Len(q) |-> [q[i] EXCEPT !.name = HostName(i)]] :
        q \in SeqsUpTo(InventoryHosts, MaxHosts)}

Limits == {None, HostName(1)}

\* the schema documents of the self-tests
TestSchema1 ==
    SchemaDoc(SchemaFileName(1), "s1", TRUE,
              [n \in {"a", "x"} |->
                  IF n = "a" THEN PropString ELSE PropArray("object", {"a"}, FALSE)],
              TRUE, <<>>)

TestSchema2 ==
    SchemaDoc(SchemaFileName(2), "s2", TRUE, [n \in {"b"} |-> PropString], TRUE, <<>>)

TestSchemaDirs ==
    {<<<<TestSchema1>>, <<>>>>,
     <<<<TestSchema1, TestSchema2>>, <<>>>>,
     <<<<TestSchema1>>, <<CHOOSE c \in PluginClasses : c.name = "CheckA">>>>}

\* fixture data for s1: valid, one error, two errors of which one under an
\* array index
GoodData == FileData(MapData([n \in {"a"} |-> StrV]))
BadData == FileData(MapData([n \in {"a"} |-> NumV]))
TwoErrorsData ==
    FileData(MapData([n \in {"a", "x"} |-> IF n = "a" THEN NumV ELSE ArrV(<<{"b"}>>)]))

\* results files left by an earlier run or written by hand
StaleResults == ResultsDoc(TRUE, <<>>)
NoKeyResults == ResultsDoc(FALSE, <<>>)

\* the results file that generate_invalid_tests_expected writes for the data
WrittenResults(data) ==
    dump_data_to_yaml(
        validate_to_dict(SchemaManagerInit(<<TestSchema1>>, <<>>, <<>>).schemas.at["s1"],
                         data).ret)

\* results files edited by hand: the same messages under another path, and
\* the same results in the opposite order
OtherPathResults ==
    ResultsDoc(TRUE, [i \in 1..Len(WrittenResults(BadData).results) |->
                        [WrittenResults(BadData).results[i] EXCEPT !.absolute_path = <<DQ("x")>>]])
ReversedResults ==
    ResultsDoc(TRUE, [i \in 1..Len(WrittenResults(TwoErrorsData).results) |->
                        WrittenResults(TwoErrorsData).results[
                            Len(WrittenResults(TwoErrorsData).results) + 1 - i]])

DirKinds ==
    {TestDir("", OneFile("yml", DataDoc(BadData)), NoFiles),
     TestDir("", OneFile("yml", DataDoc(BadData)), OneFile("json", StaleResults)),
     TestDir("", OneFile("yml", DataDoc(TwoErrorsData)), OneFile("yml", StaleResults)),
     TestDir("", OneFile("yml", DataDoc(GoodData)), OneFile("yml", StaleResults)),
     TestDir("", NoFiles, OneFile("yml", StaleResults)),
     TestDir("", OneFile("yml", DataDoc(BadData)), OneFile("yml", NoKeyResults)),
     TestDir("", OneFile("yml", DataDoc(BadData)), OneFile("yml", OtherPathResults)),
     TestDir("", OneFile("yml", DataDoc(TwoErrorsData)), OneFile("yml", ReversedResults))}

DirName(i) == IF i = 1 THEN "d1" ELSE IF i = 2 THEN "d2" ELSE "d3"

\* what os.walk lists under invalid/
InvalidDirs ==
    {[i \in 1..Len(q) |-> [q[i] EXCEPT !.name = DirName(i)]] :
        q \in SeqsUpTo(DirKinds, MaxDirs)}

ValidFiles == {<<>>, <<GoodData>>, <<BadData>>, <<GoodData, GoodData>>, <<BadData, GoodData>>}

Fixtures1 ==
    {Fixtures(TRUE, <<GoodData>>, TRUE, dirs) : dirs \in InvalidDirs}
    \cup {Fixtures(TRUE, validFiles, TRUE, <<>>) : validFiles \in ValidFiles}
    \cup {Fixtures(FALSE, <<>>, TRUE, <<>>), Fixtures(TRUE, <<>>, FALSE, <<>>)}

Fixtures2 ==
    {NoFixtures,
     Fixtures(TRUE, <<FileData(MapData([n \in {"b"} |-> StrV]))>>, TRUE,
              <<TestDir("d1", OneFile("yml", DataDoc(FileData(MapData([n \in {"b"} |-> NumV])))),
                        OneFile("yml", StaleResults))>>)}

\* s2 and the plugin class CheckA, when they have fixtures, have the same
Trees ==
    {[id \in {"s1", "s2", "CheckA"} |-> IF id = "s1" THEN f1 ELSE f2] :
        f1 \in Fixtures1, f2 \in Fixtures2}

\* a schema id that no schema directory defines
NotLoaded == "s9"

\* what load_file returns for a data file: nothing (an empty file), a
\* mapping, a string, a number, a boolean, a list of mappings and scalars
ListElems == {MapElem({"a"}), MapElem({"b"}), ScalarElem("a"), ScalarElem("b")}

FileContents ==
    {NoneData, StrData(""), StrData("a"), NumData(0), NumData(5), BoolData(TRUE),
     BoolData(FALSE)}
    \cup {MapData([n \in keys |-> StrV]) : keys \in SUBSET {"a", "b"}}
    \cup {ListData(elems) : elems \in SeqsUpTo(ListElems, MaxElems)}

\* the working directory /w with the main directory schema, its
\* subdirectory sub, and the directories schema_data and hostvars beside it
WorkDir == <<"/", "w">>
MainDir == WorkDir \o <<"/", "schema">>
SubDir == MainDir \o <<"/", "sub">>
SiblingDir == WorkDir \o <<"/", "schema", "_data">>
HostvarsDir == WorkDir \o <<"/", "hostvars">>

\* config.data_file_extensions and config.data_file_exclude_filenames
DataFileExtensions == {".json", ".yaml", ".yml"}
DataFileExcludeFilenames == {".yamllint.yml", ".travis.yml"}

TreeFiles == {TreeFile("a.yml", ".yml"), TreeFile("notes.txt", ".txt"),
              TreeFile(".yamllint.yml", ".yml")}

\* the trees that os.walk goes through, top down
FileTrees ==
    {<<TreeDir(WorkDir, <<>>), TreeDir(HostvarsDir, h), TreeDir(MainDir, m),
       TreeDir(SubDir, b), TreeDir(SiblingDir, d)>> :
        h \in SeqsUpTo(TreeFiles, MaxTreeFiles), d \in SeqsUpTo(TreeFiles, MaxTreeFiles),
        m \in {<<>>, <<TreeFile("a.yml", ".yml")>>},
        b \in {<<>>, <<TreeFile("a.yml", ".yml")>>}}

\* config.data_file_search_directories: "./", "hostvars", or "./hostvars/"
\* and "./schema_data/"
SearchDirectories ==
    {<<SearchDir(TRUE, WorkDir)>>,
     <<SearchDir(FALSE, HostvarsDir)>>,
     <<SearchDir(TRUE, HostvarsDir), SearchDir(TRUE, SiblingDir)>>}

InstanceFiles ==
    {InstanceFile(DataFile("hostvars", DataFileName(1), <<BodyLine>>, content), {}) :
        content \in FileContents}

\* ----------------------------------------------------------------- state
VARIABLES
    cmd,            \* the command being run (None: the classes are used as a library)
    pc,             \* position in the command
    files,          \* schema documents found in the schema directory
    plugins,        \* validator classes found in the validator directory
    pydantic_validators, \* config.pydantic_validators
    schemas,        \* SchemaManager.schemas
    exc,            \* the exception that left SchemaManager() or the command
    exit_status,    \* -1 while the process runs
    found,          \* data files found in the search directories
    schema_mapping, \* config.schema_mapping
    instances,      \* InstanceFileManager.instances
    automap,        \* config.data_file_automap
    strict,         \* --strict
    show_pass,      \* --show-pass
    show_checks,    \* --show-checks
    produced,       \* every ValidationResult the validation loop has seen
    printed,        \* the results printed
    obj,            \* a validator object used directly
    last,           \* the last call made on obj and its outcome
    calls,          \* the calls made on obj, in order
    hosts,          \* the hosts of the Ansible inventory
    limit,          \* --host
    api,            \* the last call made on the manager or the inventory
    fixtures,       \* the test directory: the fixtures of each schema
    test,           \* the last self-test operation and its outcome
    generated,      \* the last run of the generation of expected results
    warned,         \* the messages printed by utils.warn
    ifile,          \* an InstanceFile used directly
    reads,          \* how many times load_file has parsed the file of ifile
    access,         \* the last access to ifile.top_level_properties
    tree,           \* the directories of the file system
    search,         \* config.data_file_search_directories
    located         \* what the last call of find_files returned

cliVars == <<cmd, pc, files, plugins, pydantic_validators, schemas, exc, exit_status, found, schema_mapping,
             instances, automap, strict, show_pass, show_checks, produced, printed>>
objVars == <<obj, last, calls>>
invVars == <<hosts, limit, api>>
testVars == <<fixtures, test, generated, warned>>
propVars == <<ifile, reads, access>>
findVars == <<tree, search, located>>
vars == <<cliVars, objVars, invVars, testVars, propVars, findVars>>

\* a call on obj: the operation, its arguments, obj.results before it, what
\* it returned or raised, whether it found a failure (failedNow) and whether
\* a validate call since the last clear_results did (failed)
Call(op, data, isStrict, before, out, failedNow, failed) ==
    [op |-> op, data |-> data, strict |-> isStrict, before |-> before,
     retNone |-> out.retNone, ret |-> out.ret, raised |-> out.raised,
     failedNow |-> failedNow, failed |-> failed]

NoCall == Call(None, NoneData, FALSE, <<>>, [retNone |-> TRUE, ret |-> <<>>, raised |-> ""],
               FALSE, FALSE)

NoObject == PydanticValidation(None, {})

NoHost == Host(None, MapData(EmptyMap), Unset, Unset, Unset)

\* a call on the SchemaManager or the AnsibleInventory: the operation, its
\* arguments, the exception raised and what it returned
ApiCall(op, host, arg, hostvars, declared, isAutomap, raised, schema_id, settings, ret) ==
    [op |-> op, host |-> host, arg |-> arg, hostvars |-> hostvars, declared |-> declared,
     automap |-> isAutomap, raised |-> raised, schema_id |-> schema_id,
     settings |-> settings, ret |-> ret]

NoSettings == Settings("", <<>>, FALSE, TRUE)

NoApi == ApiCall(None, NoHost, Unset, MapData(EmptyMap), <<>>, TRUE, "", None, NoSettings,
                 EmptyDict)

InvStart ==
    /\ hosts = <<>>
    /\ limit = None
    /\ api = NoApi

\* a self-test operation: what it returned or raised and, for a command,
\* the exit status of the process (-1 for a call)
TestRun(op, schema_id, results, raised, status) ==
    [op |-> op, schema_id |-> schema_id, results |-> results, raised |-> raised,
     exit_status |-> status]

NoRun == TestRun(None, None, <<>>, "", -1)

NoTree == [id \in {} |-> NoFixtures]

TestStart ==
    /\ fixtures = NoTree
    /\ test = NoRun
    /\ generated = NoRun
    /\ warned = <<>>

\* an access to the property top_level_properties of ifile: how many there
\* were, and what the last one returned or raised
Access(n, value, raised) == [n |-> n, value |-> value, raised |-> raised]

NoAccess == Access(0, {}, "")

PropStart ==
    /\ ifile = InstanceFile(DataFile("", "", <<>>, NoneData), {})
    /\ reads = 0
    /\ access = NoAccess

\* find_files has not been called
NotSearched == [called |-> FALSE, files |-> <<>>]

FindStart ==
    /\ tree = <<>>
    /\ search = <<>>
    /\ located = NotSearched

CliStart(c, p, fs, ps, smgr) ==
    /\ cmd = c
    /\ pc = p
    /\ files = fs
    /\ plugins = ps
    /\ pydantic_validators = <<>>
    /\ schemas = smgr
    /\ exc = NoExc
    /\ exit_status = -1
    /\ found = <<>>
    /\ schema_mapping = [f \in {} |-> <<>>]
    /\ instances = <<>>
    /\ automap = TRUE
    /\ strict = FALSE
    /\ show_pass = FALSE
    /\ show_checks = FALSE
    /\ produced = <<>>
    /\ printed = <<>>

Init ==
    /\ \E c \in Commands : CliStart(c, "start", <<>>, <<>>, EmptyDict)
    /\ obj = NoObject
    /\ last = NoCall
    /\ calls = <<>>
    /\ InvStart
    /\ TestStart
    /\ PropStart
    /\ FindStart

\* ------------------------------------------------------- the commands
\* smgr = SchemaManager(config=config.SETTINGS)
LoadSchemas ==
    /\ pc = "start"
    /\ \E fs \in SchemaFiles, ps \in PluginSeqs, pv \in PydanticValidators :
         LET made == SchemaManagerInit(fs, ps, pv)
         IN  /\ files' = fs
             /\ plugins' = ps
             /\ pydantic_validators' = pv
             /\ schemas' = made.schemas
             /\ exc' = made.exc
             /\ pc' = IF made.exc = NoExc THEN "loaded" ELSE "raised"
    /\ UNCHANGED <<cmd, exit_status, found, schema_mapping, instances, automap, strict,
                   show_pass, show_checks, produced, printed, objVars, invVars, testVars, propVars, findVars>>

\* except InvalidJSONSchema as exc: error(str(exc)); sys.exit(1)
ExitInvalidSchema ==
    /\ pc = "raised"
    /\ exc.type = "InvalidJSONSchema"
    /\ instances = <<>>
    /\ pc' = "exit"
    /\ exit_status' = 1
    /\ UNCHANGED <<cmd, files, plugins, pydantic_validators, schemas, exc, found, schema_mapping, instances,
                   automap, strict, show_pass, show_checks, produced, printed, objVars, invVars, testVars, propVars, findVars>>

\* any other exception leaves the command: traceback, status 1
Crash ==
    /\ pc = "raised"
    /\ ~(exc.type = "InvalidJSONSchema" /\ instances = <<>>)
    /\ pc' = "exit"
    /\ exit_status' = 1
    /\ UNCHANGED <<cmd, files, plugins, pydantic_validators, schemas, exc, found, schema_mapping, instances,
                   automap, strict, show_pass, show_checks, produced, printed, objVars, invVars, testVars, propVars, findVars>>

\* if not smgr.schemas: error("No schemas were loaded"); sys.exit(1)
ExitNoSchemas ==
    /\ pc = "loaded"
    /\ schemas.order = <<>>
    /\ pc' = "exit"
    /\ exit_status' = 1
    /\ UNCHANGED <<cmd, files, plugins, pydantic_validators, schemas, exc, found, schema_mapping, instances,
                   automap, strict, show_pass, show_checks, produced, printed, objVars, invVars, testVars, propVars, findVars>>

\* the validate or ansible command once SchemaManager() has returned a
\* non-empty index
InitFiles ==
    /\ \E d \in SchemaDirs, c \in {"validate", "ansible"} :
         /\ SchemaManagerInit(d[1], d[2], <<>>).exc = NoExc
         /\ SchemaManagerInit(d[1], d[2], <<>>).schemas.order # <<>>
         /\ CliStart(c, "loaded", d[1], d[2],
                     SchemaManagerInit(d[1], d[2], <<>>).schemas)
    /\ obj = NoObject
    /\ last = NoCall
    /\ calls = <<>>
    /\ InvStart
    /\ TestStart
    /\ PropStart
    /\ FindStart

\* ifm = InstanceFileManager(config=config.SETTINGS)
LoadInstances ==
    /\ pc = "loaded"
    /\ cmd = "validate"
    /\ schemas.order # <<>>
    /\ \E ff \in FoundFiles, sm \in SchemaMappings :
         /\ found' = ff
         /\ schema_mapping' = sm
         /\ instances' = InstanceFileManagerInit(ff, sm)
         /\ pc' = "instances"
    /\ UNCHANGED <<cmd, files, plugins, pydantic_validators, schemas, exc, exit_status, automap, strict,
                   show_pass, show_checks, produced, printed, objVars, invVars, testVars, propVars, findVars>>

\* if not ifm.instances: error("No instance files were found"); sys.exit(1)
ExitNoInstances ==
    /\ pc = "instances"
    /\ instances = <<>>
    /\ pc' = "exit"
    /\ exit_status' = 1
    /\ UNCHANGED <<cmd, files, plugins, pydantic_validators, schemas, exc, found, schema_mapping, instances,
                   automap, strict, show_pass, show_checks, produced, printed, objVars, invVars, testVars, propVars, findVars>>

\* if config.SETTINGS.data_file_automap: ifm.add_matches_by_property_automap(smgr)
Automap ==
    /\ pc = "instances"
    /\ instances # <<>>
    /\ \E enabled \in BOOLEAN :
         LET mapped == IF enabled THEN AutomapAll(instances, 1, schemas)
                       ELSE [instances |-> instances, raised |-> ""]
         IN  /\ automap' = enabled
             /\ instances' = mapped.instances
             /\ exc' = IF mapped.raised = "" THEN exc ELSE Exc(mapped.raised, "", <<>>)
             /\ pc' = IF mapped.raised = "" THEN "mapped" ELSE "raised"
    /\ UNCHANGED <<cmd, files, plugins, pydantic_validators, schemas, exit_status, found, schema_mapping,
                   strict, show_pass, show_checks, produced, printed, objVars, invVars, testVars, propVars, findVars>>

\* if show_checks: ifm.print_schema_mapping(); sys.exit(0)
ShowChecks ==
    /\ pc = "mapped"
    /\ show_checks' = TRUE
    /\ pc' = "exit"
    /\ exit_status' = 0
    /\ UNCHANGED <<cmd, files, plugins, pydantic_validators, schemas, exc, found, schema_mapping, instances,
                   automap, strict, show_pass, produced, printed, objVars, invVars, testVars, propVars, findVars>>

\* the results of one instance as the loop of the command labels them
LabelResults(results, instance) ==
    [i \in 1..Len(results) |->
        WithInstance(results[i], "FILE", instance.filename, instance.path)]

\* an exit status that ignores the results
ExitStatusZero(results) == 0

\* error_exists is set at the first result that did not pass; sys.exit(1)
ExitStatus(results) == IF \E k \in 1..Len(results) : ~passed(results[k]) THEN 1 ELSE 0

ToPrint(results, showPass) == SelectSeq(results, LAMBDA r : ~passed(r) \/ showPass)

\* for instance in ifm.instances: for result in instance.validate(smgr, strict)
RECURSIVE ValidateAll(_, _, _, _, _, _, _)
ValidateAll(insts, i, smgr, isStrict, showPass, seen, out) ==
    IF i > Len(insts) THEN [smgr |-> smgr, produced |-> seen, printed |-> out, raised |-> ""]
    ELSE LET Shown(one, labelled) ==
                 IF one.raised # ""
                 THEN [smgr |-> one.smgr, produced |-> seen, printed |-> out,
                       raised |-> one.raised]
                 ELSE ValidateAll(insts, i + 1, one.smgr, isStrict, showPass,
                                  seen \o labelled, out \o ToPrint(labelled, showPass))
             Labelled(one) == Shown(one, LabelResults(one.results, insts[i]))
         IN  Labelled(InstanceValidate(insts[i], smgr, isStrict))

ValidateInstances ==
    /\ pc = "mapped"
    /\ \E isStrict \in BOOLEAN, showPass \in BOOLEAN :
         LET Exit(run) ==
                 /\ strict' = isStrict
                 /\ show_pass' = showPass
                 /\ schemas' = run.smgr
                 /\ produced' = run.produced
                 /\ printed' = run.printed
                 /\ exc' = IF run.raised = "" THEN exc ELSE Exc(run.raised, "", <<>>)
                 /\ pc' = IF run.raised = "" THEN "exit" ELSE "raised"
                 /\ exit_status' =
                       IF run.raised # "" THEN exit_status
                       ELSE ExitStatus(run.produced)
         IN  Exit(ValidateAll(instances, 1, schemas, isStrict, showPass, <<>>, <<>>))
    /\ UNCHANGED <<cmd, files, plugins, pydantic_validators, found, schema_mapping, instances,
                   automap, show_checks, objVars, invVars, testVars, propVars, findVars>>

\* inv = AnsibleInventory(...); hosts = inv.get_hosts_containing()
LoadInventory ==
    /\ pc = "loaded"
    /\ cmd = "ansible"
    /\ schemas.order # <<>>
    /\ \E hs \in Inventories, lim \in Limits :
         /\ hosts' = hs
         /\ limit' = lim
    /\ pc' = "inventory"
    /\ UNCHANGED <<cmd, files, plugins, pydantic_validators, schemas, exc, exit_status, found,
                   schema_mapping, instances, automap, strict, show_pass, show_checks,
                   produced, printed, objVars, api, testVars, propVars, findVars>>

\* if show_checks: inv.print_schema_mapping(hosts, limit, smgr); sys.exit(0)
AnsibleShowChecks ==
    /\ pc = "inventory"
    /\ LET raised == print_schema_mapping(hosts, limit, schemas)
       IN  /\ exc' = IF raised = "" THEN exc ELSE Exc(raised, "", <<>>)
           /\ pc' = IF raised = "" THEN "exit" ELSE "raised"
           /\ exit_status' = IF raised = "" THEN 0 ELSE exit_status
    /\ show_checks' = TRUE
    /\ UNCHANGED <<cmd, files, plugins, pydantic_validators, schemas, found, schema_mapping,
                   instances, automap, strict, show_pass, produced, printed, objVars,
                   invVars, testVars, propVars, findVars>>

\* for host in hosts: if limit and host.name != limit: continue; ...
RECURSIVE ValidateHostsLoop(_, _, _, _, _, _, _)
ValidateHostsLoop(hs, i, lim, smgr, showPass, seen, out) ==
    IF i > Len(hs) THEN [smgr |-> smgr, produced |-> seen, printed |-> out, raised |-> ""]
    ELSE IF lim # None /\ hs[i].name # lim
    THEN ValidateHostsLoop(hs, i + 1, lim, smgr, showPass, seen, out)
    ELSE LET Shown(one) ==
                 IF one.raised # ""
                 THEN [smgr |-> one.smgr, produced |-> seen \o one.results,
                       printed |-> out \o ToPrint(one.results, showPass), raised |-> one.raised]
                 ELSE ValidateHostsLoop(hs, i + 1, lim, one.smgr, showPass,
                                        seen \o one.results,
                                        out \o ToPrint(one.results, showPass))
         IN  Shown(ValidateHost(hs[i], smgr))

ValidateHosts ==
    /\ pc = "inventory"
    /\ \E showPass \in BOOLEAN :
         LET Exit(run) ==
                 /\ show_pass' = showPass
                 /\ schemas' = run.smgr
                 /\ produced' = run.produced
                 /\ printed' = run.printed
                 /\ exc' = IF run.raised = "" THEN exc ELSE Exc(run.raised, "", <<>>)
                 /\ pc' = IF run.raised = "" THEN "exit" ELSE "raised"
                 /\ exit_status' = IF run.raised # "" THEN exit_status
                                   ELSE ExitStatus(run.produced)
         IN  Exit(ValidateHostsLoop(hosts, 1, limit, schemas, showPass, <<>>, <<>>))
    /\ UNCHANGED <<cmd, files, plugins, pydantic_validators, found, schema_mapping, instances,
                   automap, strict, show_checks, objVars, invVars, testVars, propVars, findVars>>

\* a command up to the construction of its SchemaManager
Next ==
    \/ LoadSchemas
    \/ ExitInvalidSchema
    \/ Crash
    \/ ExitNoSchemas

Spec == Init /\ [][Next]_vars

\* the validate and the ansible command from there on
NextFiles ==
    \/ LoadInstances
    \/ ExitNoInstances
    \/ Automap
    \/ ShowChecks
    \/ ValidateInstances
    \/ LoadInventory
    \/ AnsibleShowChecks
    \/ ValidateHosts
    \/ Crash

SpecFiles == InitFiles /\ [][NextFiles]_vars

\* ------------------------------------------- validator objects used directly
ValueOfA ==
    {StrV, NumV, ObjV({"b"}), ObjV({"b", "x"}), ArrV(<<{"b"}>>), ArrV(<<{"b", "x"}>>)}

\* mappings of at most MaxDataKeys keys; only `a` takes structured values
JsonData ==
    UNION {{MapData([n \in keys |-> IF n = "a" THEN va ELSE StrV]) : va \in ValueOfA} :
             keys \in {k \in SUBSET Names : Cardinality(k) <= MaxDataKeys}}

JmesData ==
    {Data("map", EmptyMap, "", <<>>, [q \in Queries |-> IF q = "left" THEN l ELSE r],
          TRUE, TRUE) :
        l \in {JNull, JInt(0), JInt(1), JInt(2), JList({}), JList({2})},
        r \in {JInt(1), JInt(2)}}

ModelData ==
    {Data("map", EmptyMap, "", <<>>, NoSearch, ok[1], ok[2]) :
        ok \in {p \in BOOLEAN \X BOOLEAN : p[2] => p[1]}}

DataFor(self) ==
    CASE self.kind = "jsonschema" -> JsonData
      [] self.kind = "jmespath" -> JmesData
      [] self.kind = "pydantic" -> ModelData

ValidatorDocs ==
    {SchemaDoc("dns.yml", "s1", TRUE, [n \in {"a"} |-> ps], additional, <<>>) :
        ps \in {PropString, PropObject({"b"}, TRUE), PropArray("object", {"b"}, TRUE)},
        additional \in BOOLEAN}

ValidatorObjects ==
    {JsonSchema(doc) : doc \in ValidatorDocs}
    \cup
    {JmesPathModelValidation("CheckInterface", {"a"}, TRUE, right, op, ErrorText) :
        right \in {Literal(JInt(2)), Compiled("right")}, op \in Operators}
    \cup
    {PydanticValidation("Model", {"a"})}

\* whether validating data finds a failure
Fails(self, data, isStrict) ==
    CASE self.kind = "jsonschema" ->
           Draft7Errors(IF isStrict THEN StrictSchema(self.data[1]) ELSE self.data[1],
                        data) # <<>>
      [] self.kind = "jmespath" ->
           LET out == JmesPathValidate(clear_results(self), data, isStrict)
           IN  out.self.results # <<>>
      [] self.kind = "pydantic" -> ~(IF isStrict THEN data.okStrict ELSE data.okLax)

InitVal ==
    /\ CliStart(None, "lib", <<>>, <<>>, EmptyDict)
    /\ obj \in ValidatorObjects
    /\ last = NoCall
    /\ calls = <<>>
    /\ InvStart
    /\ TestStart
    /\ PropStart
    /\ FindStart

\* obj.validate(data, strict)
CallValidate ==
    /\ pc = "lib"
    /\ Len(calls) < MaxCalls
    /\ \E data \in DataFor(obj), isStrict \in BOOLEAN :
         LET out == Validate(obj, data, isStrict)
         IN  /\ obj' = out.self
             /\ last' = Call("validate", data, isStrict, obj.results, out,
                             Fails(obj, data, isStrict),
                             last.failed \/ Fails(obj, data, isStrict))
    /\ calls' = Append(calls, "validate")
    /\ UNCHANGED <<cliVars, invVars, testVars, propVars, findVars>>

\* obj.get_results()
CallGetResults ==
    /\ pc = "lib"
    /\ Len(calls) < MaxCalls
    /\ LET out == GetResults(obj)
       IN  /\ obj' = out.self
           /\ last' = Call("get_results", NoneData, FALSE, obj.results, out, FALSE,
                           last.failed)
    /\ calls' = Append(calls, "get_results")
    /\ UNCHANGED <<cliVars, invVars, testVars, propVars, findVars>>

\* obj.clear_results()
CallClearResults ==
    /\ pc = "lib"
    /\ Len(calls) < MaxCalls
    /\ obj' = clear_results(obj)
    /\ last' = Call("clear_results", NoneData, FALSE, obj.results,
                    [retNone |-> TRUE, ret |-> <<>>, raised |-> ""], FALSE, FALSE)
    /\ calls' = Append(calls, "clear_results")
    /\ UNCHANGED <<cliVars, invVars, testVars, propVars, findVars>>

NextVal == CallValidate \/ CallGetResults \/ CallClearResults

SpecVal == InitVal /\ [][NextVal]_vars

\* the arguments a validate method of a plugin gives add_validation_error
\* and add_validation_pass: a message or "", with or without absolute_path
Messages == {NoMessage, ErrorText}
PathArguments == {<<>>, <<PathKey("a")>>}

\* obj.add_validation_error(message, absolute_path=...)
CallAddValidationError ==
    /\ pc = "lib"
    /\ Len(calls) < MaxCalls
    /\ \E message \in Messages, absolute_path \in PathArguments :
         /\ obj' = [obj EXCEPT !.results =
                       add_validation_error(obj.results, obj.id, message, absolute_path)]
         /\ last' = Call("add_validation_error", NoneData, FALSE, obj.results,
                         [retNone |-> TRUE, ret |-> <<>>, raised |-> ""], TRUE, TRUE)
    /\ calls' = Append(calls, "add_validation_error")
    /\ UNCHANGED <<cliVars, invVars, testVars, propVars, findVars>>

\* obj.add_validation_pass(absolute_path=...)
CallAddValidationPass ==
    /\ pc = "lib"
    /\ Len(calls) < MaxCalls
    /\ \E absolute_path \in PathArguments :
         /\ obj' = [obj EXCEPT !.results =
                       add_validation_pass(obj.results, obj.id, absolute_path)]
         /\ last' = Call("add_validation_pass", NoneData, FALSE, obj.results,
                         [retNone |-> TRUE, ret |-> <<>>, raised |-> ""], FALSE, last.failed)
    /\ calls' = Append(calls, "add_validation_pass")
    /\ UNCHANGED <<cliVars, invVars, testVars, propVars, findVars>>

\* a validator object used through the whole interface of BaseValidation
NextAdd ==
    \/ CallAddValidationError
    \/ CallAddValidationPass
    \/ CallValidate
    \/ CallGetResults
    \/ CallClearResults

SpecAdd == InitVal /\ [][NextAdd]_vars

\* ================================================================ claims
\* ------------------------------- the manager and the inventory used directly
\* one call on a freshly loaded manager or inventory
InitInv ==
    /\ \E d \in SchemaDirs :
         /\ SchemaManagerInit(d[1], d[2], <<>>).exc = NoExc
         /\ CliStart(None, "lib", d[1], d[2], SchemaManagerInit(d[1], d[2], <<>>).schemas)
    /\ obj = NoObject
    /\ last = NoCall
    /\ calls = <<>>
    /\ InvStart
    /\ TestStart
    /\ PropStart
    /\ FindStart

\* smgr.validate_schemas_exist(schema_ids)
CallValidateSchemasExist ==
    /\ pc = "lib"
    /\ api = NoApi
    /\ \E arg \in IdSettings \ {Unset} :
         LET out == validate_schemas_exist(schemas, arg)
         IN  api' = ApiCall("validate_schemas_exist", NoHost, arg, MapData(EmptyMap), <<>>,
                            TRUE, out.raised, out.schema_id, NoSettings, EmptyDict)
    /\ UNCHANGED <<cliVars, objVars, hosts, limit, testVars, propVars, findVars>>

\* inv.get_schema_validation_settings(host)
CallGetSchemaValidationSettings ==
    /\ pc = "lib"
    /\ api = NoApi
    /\ \E host \in Hosts :
         LET out == get_schema_validation_settings(host)
         IN  api' = ApiCall("get_schema_validation_settings", host, Unset, MapData(EmptyMap),
                            <<>>, TRUE, out.raised, None, out, EmptyDict)
    /\ UNCHANGED <<cliVars, objVars, hosts, limit, testVars, propVars, findVars>>

\* inv.get_applicable_schemas(hostvars, smgr, declared_schema_ids, automap)
CallGetApplicableSchemas ==
    /\ pc = "lib"
    /\ api = NoApi
    /\ \E hostvars \in HostVars, declared \in IdLists, isAutomap \in BOOLEAN :
         LET out == get_applicable_schemas(hostvars, schemas, declared, isAutomap)
         IN  api' = ApiCall("get_applicable_schemas", NoHost, Unset, hostvars, declared,
                            isAutomap, out.raised, None, NoSettings, out.ret)
    /\ UNCHANGED <<cliVars, objVars, hosts, limit, testVars, propVars, findVars>>

NextInv ==
    \/ CallValidateSchemasExist
    \/ CallGetSchemaValidationSettings
    \/ CallGetApplicableSchemas

SpecInv == InitInv /\ [][NextInv]_vars

\* ------------------------------------------------------------ the self-tests
\* a loaded manager and a test directory; every action is one run of a
\* `schema` command, or one call, on that manager as loaded
InitTest ==
    /\ \E d \in TestSchemaDirs :
         CliStart("schema", "loaded", d[1], d[2], SchemaManagerInit(d[1], d[2], <<>>).schemas)
    /\ obj = NoObject
    /\ last = NoCall
    /\ calls = <<>>
    /\ InvStart
    /\ fixtures \in Trees
    /\ test = NoRun
    /\ generated = NoRun
    /\ warned = <<>>
    /\ PropStart
    /\ FindStart

\* schema --check: smgr.test_schemas(); sys.exit(0)
SchemaCheck ==
    /\ cmd = "schema"
    /\ LET Exit(run) ==
               /\ test' = TestRun("check", None, run.results, run.raised,
                                   IF run.raised = "" THEN 0 ELSE 1)
               /\ warned' = run.warned
       IN  Exit(test_schemas(schemas, fixtures))
    /\ UNCHANGED <<cliVars, objVars, invVars, fixtures, generated, propVars, findVars>>

\* schema --generate-invalid --schema-id <id>:
\* smgr.generate_invalid_tests_expected(schema_id=schema_id); sys.exit(0)
SchemaGenerate ==
    /\ cmd = "schema"
    /\ \E schema_id \in DictKeys(schemas) \cup {NotLoaded} :
         LET Exit(run) ==
                 /\ fixtures' = run.tree
                 /\ test' = TestRun("generate", schema_id, <<>>, run.raised,
                                    IF run.raised = "" THEN 0 ELSE 1)
                 /\ generated' = test'
                 /\ warned' = run.warned
         IN  Exit(generate_invalid_tests_expected(schemas, schema_id, fixtures))
    /\ UNCHANGED <<cliVars, objVars, invVars, propVars, findVars>>

\* smgr.test_schema_invalid(schema_id)
CallTestSchemaInvalid ==
    /\ cmd = "schema"
    /\ \E schema_id \in DictKeys(schemas) \cup {NotLoaded} :
         LET Return(run) ==
                 /\ test' = TestRun("test_schema_invalid", schema_id, run.results, run.raised,
                                    -1)
                 /\ warned' = run.warned
         IN  Return(test_schema_invalid(schemas, schema_id, fixtures))
    /\ UNCHANGED <<cliVars, objVars, invVars, fixtures, generated, propVars, findVars>>

\* smgr.test_schema_valid(schema_id)
CallTestSchemaValid ==
    /\ cmd = "schema"
    /\ \E schema_id \in DictKeys(schemas) \cup {NotLoaded} :
         LET Return(run) ==
                 test' = TestRun("test_schema_valid", schema_id, run.results, run.raised, -1)
         IN  Return(test_schema_valid(schemas, schema_id, fixtures))
    /\ warned' = <<>>
    /\ UNCHANGED <<cliVars, objVars, invVars, fixtures, generated, propVars, findVars>>

\* an InstanceFile of the library
InitProps ==
    /\ CliStart(None, "file", <<>>, <<>>, EmptyDict)
    /\ obj = NoObject
    /\ last = NoCall
    /\ calls = <<>>
    /\ InvStart
    /\ TestStart
    /\ ifile \in InstanceFiles
    /\ reads = 0
    /\ access = NoAccess
    /\ FindStart

\* ifile.top_level_properties
GetTopLevelProperties ==
    /\ pc = "file"
    /\ access.n < MaxAccesses
    /\ LET Got(out) ==
               /\ ifile' = out.self
               /\ reads' = IF out.parsed THEN reads + 1 ELSE reads
               /\ access' = Access(access.n + 1, out.value, out.raised)
       IN  Got(TopLevelProperties(ifile))
    /\ UNCHANGED <<cliVars, objVars, invVars, testVars, findVars>>

NextProps == GetTopLevelProperties

SpecProps == InitProps /\ [][NextProps]_vars

\* a file system and a configuration of the search
InitFind ==
    /\ CliStart(None, "find", <<>>, <<>>, EmptyDict)
    /\ obj = NoObject
    /\ last = NoCall
    /\ calls = <<>>
    /\ InvStart
    /\ TestStart
    /\ ifile = InstanceFile(DataFile("", "", <<>>, NoneData), {})
    /\ reads = 0
    /\ access = NoAccess
    /\ tree \in FileTrees
    /\ search \in SearchDirectories
    /\ located = NotSearched

\* InstanceFileManager.__init__: find_files(config.data_file_extensions,
\* config.data_file_search_directories, config.data_file_exclude_filenames,
\* excluded_directories=[config.main_directory], return_dir=True)
FindInstanceFiles ==
    /\ pc = "find"
    /\ ~located.called
    /\ located' = [called |-> TRUE,
                   files |-> find_files(DataFileExtensions, search, DataFileExcludeFilenames,
                                        <<MainDir>>, tree)]
    /\ UNCHANGED <<cliVars, objVars, invVars, testVars, propVars, tree, search>>

NextFind == FindInstanceFiles

SpecFind == InitFind /\ [][NextFind]_vars

NextTest ==
    \/ SchemaCheck
    \/ SchemaGenerate
    \/ CallTestSchemaInvalid
    \/ CallTestSchemaValid

SpecTest == InitTest /\ [][NextTest]_vars

\* ---- C1
\* two schema documents of the schema directory carry the same $id, or a
\* validator class is filed under the id of a schema document
DuplicateIds ==
    \/ \E i, j \in 1..Len(files) : i < j /\ files[i].id = files[j].id
    \/ \E i \in 1..Len(files), k \in 1..Len(plugins) : PluginKey(plugins[k]) = files[i].id

\* C1: a schema id is never silently overwritten: the SchemaManager is never
\* constructed from a schema directory that holds the same id twice.
C1_DuplicateIdRejected == pc = "loaded" => ~DuplicateIds

\* ---- C2
MetaInvalid(doc) == doc.metaErrors # <<>>

\* C2: when a discovered schema document fails the meta-schema, construction
\* raises InvalidJSONSchema naming that file and its violations, no index is
\* produced, nothing is validated and the command exits with status 1.
C2_InvalidSchemaIsFatal ==
    (cmd # None /\ pc # "start" /\ \E i \in 1..Len(files) : MetaInvalid(files[i])) =>
        /\ exc.type = "InvalidJSONSchema"
        /\ \E i \in 1..Len(files) :
             /\ MetaInvalid(files[i])
             /\ exc.filename = files[i].filename
             /\ exc.errors = [k \in 1..Len(files[i].metaErrors) |->
                                files[i].metaErrors[k].message]
        /\ schemas = EmptyDict
        /\ instances = <<>>
        /\ produced = <<>>
        /\ pc = "exit" => exit_status = 1

\* ---- C3
StaticIds(i) ==
    IF found[i].filename \in DOMAIN schema_mapping
    THEN {schema_mapping[found[i].filename][j] :
            j \in 1..Len(schema_mapping[found[i].filename])}
    ELSE {}

HasStaticMapping(i) == found[i].filename \in DOMAIN schema_mapping

DecoratorLines(text) == {j \in 1..Len(text) : text[j].comment /\ text[j].tag = SCHEMA_TAG}

IdsOfLine(line) == {line.payload[k].id : k \in 1..Len(line.payload)}

ExplicitMatches(i) == InstanceFile(found[i], StaticIds(i)).matches

\* the top-level properties of a parsed content
PropertiesOf(content) ==
    CASE content.kind = "map" -> DOMAIN content.map
      [] content.kind = "str" -> {content.scalar}
      [] content.kind = "list" -> ListProperties(content.elems)
      [] OTHER -> {}

\* the loaded schema ids whose top-level properties meet those of the content
AutomapIds(content) ==
    {k \in DictKeys(schemas) :
        schemas.at[k].top_level_properties \cap PropertiesOf(content) # {}}

C5_AutomapExact ==
    (pc = "mapped" /\ automap) =>
        \A i \in 1..Len(instances) :
            (~HasStaticMapping(i) /\ DecoratorLines(found[i].text) = {}) =>
                /\ instances[i].matches = AutomapIds(instances[i].content)
                /\ \A k \in instances[i].matches :
                     schemas.at[k].top_level_properties # {}

C5_Witness ==
    /\ pc = "mapped"
    /\ automap
    /\ \E k \in DictKeys(schemas) : schemas.at[k].top_level_properties = {}
    /\ \E i \in 1..Len(instances) :
         /\ ~HasStaticMapping(i)
         /\ DecoratorLines(found[i].text) = {}
         /\ instances[i].matches # {}

AfterValidate == last.op = "validate" /\ last.raised = ""

\* C7 as stated: the call validate(data, strict) itself returns a list of at
\* least one result, holding a PASS with no message when nothing failed.
C7_ValidateReturnsResults ==
    AfterValidate =>
        /\ ~last.retNone
        /\ Len(last.ret) >= 1
        /\ ~last.failedNow =>
             \E i \in 1..Len(last.ret) :
                 passed(last.ret[i]) /\ last.ret[i].message = NoMessage

\* C7 amended: get_results() returns a list of at least one result, all of
\* them PASS with no message when no validate call since the last
\* clear_results found a failure; validate itself returns that list for a
\* JsonSchema and None for the two other kinds.
C7_GetResultsHoldsResult ==
    /\ AfterValidate =>
         /\ last.retNone <=> obj.kind # "jsonschema"
         /\ obj.kind = "jsonschema" => (last.ret = obj.results /\ Len(last.ret) >= 1)
    /\ last.op = "get_results" =>
         /\ ~last.retNone
         /\ Len(last.ret) >= 1
         /\ ~last.failed =>
              \A i \in 1..Len(last.ret) :
                  passed(last.ret[i]) /\ last.ret[i].message = NoMessage

C7_Witness ==
    /\ calls = <<"validate", "get_results">>
    /\ obj.kind = "jmespath"
    /\ last.before = <<>>
    /\ ~last.failed
    /\ Len(last.ret) = 1

\* ---- C8
\* one FAIL per error of the Draft-7 validator on this data, or one PASS
ResultsOf(self, data, isStrict) ==
    LET errs == Draft7Errors(IF isStrict THEN StrictSchema(self.data[1]) ELSE self.data[1],
                             data)
    IN  IF errs = <<>> THEN <<ValidationResult(RESULT_PASS, self.id, NoMessage, <<>>)>>
        ELSE [i \in 1..Len(errs) |->
                ValidationResult(RESULT_FAIL, self.id, errs[i].message,
                                 errs[i].absolute_path)]

\* C8: whatever was called before, JsonSchema.validate returns exactly one
\* FAIL per error of this data, or exactly one PASS, and never a PASS
\* together with a FAIL.
C8_ResultsOfThisCallOnly ==
    (AfterValidate /\ obj.kind = "jsonschema") =>
        /\ last.ret = ResultsOf(obj, last.data, last.strict)
        /\ ~(/\ \E i \in 1..Len(last.ret) : passed(last.ret[i])
             /\ \E i \in 1..Len(last.ret) : ~passed(last.ret[i]))

\* ---- C9
\* the results that flag undeclared fields
FlagsUndeclared(r) ==
    ~passed(r) /\ Head(r.message) = "Additional properties are not allowed"

\* the data holds a field its schema does not declare: at the top level, in
\* a nested object or in an item of an array
UndeclaredPaths(schema, data) ==
    LET declared == DOMAIN schema.properties
        present == declared \cap DOMAIN data.map
    IN  (IF DOMAIN data.map \ declared # {} THEN {<<>>} ELSE {})
        \cup
        {<<p>> : p \in {q \in present :
                          /\ data.map[q].k = "obj"
                          /\ schema.properties[q].type = "object"
                          /\ data.map[q].keys \ schema.properties[q].properties # {}}}
        \cup
        UNION {{<<p, IntToStr(i - 1)>> :
                   i \in {j \in 1..Len(data.map[p].elems) :
                            data.map[p].elems[j] \ schema.properties[p].items.properties # {}}} :
                 p \in {q \in present : data.map[q].k = "arr" /\ schema.properties[q].hasItems}}

\* strict mode: every undeclared field, top level or nested, gets a FAIL
C9_StrictHalf ==
    (AfterValidate /\ obj.kind = "jsonschema" /\ last.before = <<>> /\ last.strict) =>
        \A path \in UndeclaredPaths(obj.data[1], last.data) :
            \E i \in 1..Len(last.ret) :
                FlagsUndeclared(last.ret[i]) /\ last.ret[i].absolute_path = path

\* non-strict mode: no result flags an undeclared field
C9_NonStrictHalf ==
    (AfterValidate /\ obj.kind = "jsonschema" /\ last.before = <<>> /\ ~last.strict) =>
        \A i \in 1..Len(last.ret) : ~FlagsUndeclared(last.ret[i])

\* C9: in strict mode every undeclared field of the data, at the top level
\* or nested, gets a FAIL; in non-strict mode no result flags one.
C9_StrictFlagsUndeclared == C9_StrictHalf /\ C9_NonStrictHalf

\* ---- C10
\* the result the predicate validator reports for the call
PredicateOutcome == get_results(obj.results, obj.id)

\* C10: the outcome is FAIL with the fixed error exactly when the left query
\* yields a match and the operator is false on (left, right); it is PASS
\* otherwise, vacuously only when the left query yields no match.
C10_PredicateOutcome ==
    (AfterValidate /\ obj.kind = "jmespath" /\ last.before = <<>>) =>
        LET lhs == last.data.search[obj.left]
            rhs == IF obj.right.compiled THEN last.data.search[obj.right.query]
                   ELSE obj.right.value
            shouldFail == /\ lhs # JNull
                          /\ ~OperatorRaises(obj.operator, lhs, rhs)
                          /\ ~ApplyOperator(obj.operator, lhs, rhs)
        IN  /\ Len(PredicateOutcome) = 1
            /\ shouldFail =>
                 (~passed(PredicateOutcome[1]) /\ PredicateOutcome[1].message = obj.error)
            /\ ~shouldFail => passed(PredicateOutcome[1])

\* ---- C11
\* the ids PydanticManager m files its models under
ManagerIds(m) ==
    {IF m.prefix = "" THEN m.models[i] ELSE m.prefix \o "/" \o m.models[i] :
        i \in 1..Len(m.models)}

\* C11: after construction every model of every manager listed in
\* config.pydantic_validators is in SchemaManager.schemas under
\* `<prefix>/<ModelName>`, or `<ModelName>` without a prefix; with manager1
\* and manager2 and nothing else to load the index holds exactly their ids.
C11_PydanticModelsLoaded ==
    (cmd # None /\ pc = "loaded") =>
        /\ \A k \in 1..Len(pydantic_validators) :
               ManagerIds(pydantic_validators[k]) \subseteq DictKeys(schemas)
        /\ (files = <<>> /\ plugins = <<>>) =>
               DictKeys(schemas) =
                   UNION {ManagerIds(pydantic_validators[k]) :
                            k \in 1..Len(pydantic_validators)}


\* ---- C12
\* the position of the first id of the list that the index lacks, 0 for none
FirstMissing(ids, smgr) ==
    IF \A i \in 1..Len(ids) : ids[i] \in DictKeys(smgr) THEN 0
    ELSE CHOOSE i \in 1..Len(ids) :
            /\ ids[i] \notin DictKeys(smgr)
            /\ \A j \in 1..(i - 1) : ids[j] \in DictKeys(smgr)

\* C12: validate_schemas_exist(schema_ids) raises TypeError exactly when the
\* argument is not a list; given a list it returns normally exactly when
\* every id is a key of the index, and otherwise raises SchemaNotDefined
\* naming the first id of the list, in list order, that the index lacks; the
\* index is the one loaded at construction afterwards.
C12_ValidateSchemasExist ==
    api.op = "validate_schemas_exist" =>
        /\ (api.raised = "TypeError") <=> (api.arg.kind # "list")
        /\ api.arg.kind = "list" =>
              /\ (api.raised = "") <=> (FirstMissing(api.arg.list, schemas) = 0)
              /\ FirstMissing(api.arg.list, schemas) # 0 =>
                    /\ api.raised = "SchemaNotDefined"
                    /\ api.schema_id = api.arg.list[FirstMissing(api.arg.list, schemas)]
        /\ schemas = SchemaManagerInit(files, plugins, <<>>).schemas

\* a list whose second id is the first one missing, and a later one is missing too
C12_Witness ==
    /\ api.op = "validate_schemas_exist"
    /\ api.raised = "SchemaNotDefined"
    /\ Len(api.arg.list) = 2
    /\ FirstMissing(api.arg.list, schemas) = 2


\* ---- C13
\* a setting of the host has a value of the wrong type
WrongType(host) ==
    \/ host.schema_enforcer_schema_ids.set /\ host.schema_enforcer_schema_ids.kind # "list"
    \/ host.schema_enforcer_strict.set /\ host.schema_enforcer_strict.kind # "bool"
    \/ host.schema_enforcer_automap_default.set
       /\ host.schema_enforcer_automap_default.kind # "bool"

\* the ids the host declares and whether it sets strict, types permitting
DeclaredIds(host) ==
    IF host.schema_enforcer_schema_ids.set THEN host.schema_enforcer_schema_ids.list ELSE <<>>

StrictSet(host) == host.schema_enforcer_strict.set /\ host.schema_enforcer_strict.bool

\* C13: get_schema_validation_settings raises TypeError exactly when
\* schema_enforcer_schema_ids is not a list or schema_enforcer_strict or
\* schema_enforcer_automap_default is not a boolean; with well-typed settings
\* it raises ValueError exactly when strict is set and the number of declared
\* ids is not one, so strict=True is returned only with exactly one declared
\* id, and with strict unset any number of declared ids is returned as given.
C13_StrictNeedsOneId ==
    api.op = "get_schema_validation_settings" =>
        /\ api.raised \in {"", "TypeError", "ValueError"}
        /\ (api.raised = "TypeError") <=> WrongType(api.host)
        /\ ~WrongType(api.host) =>
              ((api.raised = "ValueError") <=>
                  (StrictSet(api.host) /\ Len(DeclaredIds(api.host)) # 1))
        /\ api.raised = "" =>
              /\ api.settings.declared_schema_ids = DeclaredIds(api.host)
              /\ api.settings.strict = StrictSet(api.host)
              /\ api.settings.strict => Len(api.settings.declared_schema_ids) = 1
        /\ (~WrongType(api.host) /\ ~StrictSet(api.host)) => api.raised = ""

\* strict set with two declared ids: ValueError
C13_Witness ==
    /\ api.op = "get_schema_validation_settings"
    /\ api.raised = "ValueError"
    /\ Len(DeclaredIds(api.host)) = 2


\* ---- C14
\* the loaded schemas having a top-level property among the keys
SchemasWithKeyOf(hostvars, smgr) ==
    {k \in DictKeys(smgr) : smgr.at[k].top_level_properties \cap DOMAIN hostvars.map # {}}

\* C14: for any host variable mapping, the empty one included, and any
\* automap value, get_applicable_schemas returns exactly the declared schema
\* ids, each mapped to its validator, when declared_schema_ids is non-empty
\* (and every declared id is loaded); when it is empty it returns exactly the
\* loaded schemas having a top-level property among the host's keys if
\* automap is true, and nothing if automap is false.
C14_ApplicableSchemas ==
    (api.op = "get_applicable_schemas"
     /\ \A i \in 1..Len(api.declared) : api.declared[i] \in DictKeys(schemas)) =>
        /\ api.raised = ""
        /\ api.declared # <<>> =>
              /\ DictKeys(api.ret) = {api.declared[i] : i \in 1..Len(api.declared)}
              /\ \A id \in DictKeys(api.ret) : api.ret.at[id].schema = schemas.at[id]
        /\ (api.declared = <<>> /\ api.automap) =>
              {api.ret.at[id].key : id \in DictKeys(api.ret)}
                  = SchemasWithKeyOf(api.hostvars, schemas)
        /\ (api.declared = <<>> /\ ~api.automap) => DictKeys(api.ret) = {}


\* ---- C15
\* the validate or ansible command has ended after its schemas and its
\* instances or hosts were loaded, and was not asked to show the checks only
EndedLoaded ==
    /\ pc = "exit"
    /\ cmd \in {"validate", "ansible"}
    /\ ~show_checks
    /\ cmd = "validate" => instances # <<>>

SomeFail(results) == \E k \in 1..Len(results) : ~passed(results[k])

\* the validation loop of the command, run again on the manager as loaded
Rerun(showPass) ==
    LET From(smgr) ==
            IF cmd = "validate"
            THEN ValidateAll(instances, 1, smgr, strict, showPass, <<>>, <<>>)
            ELSE ValidateHostsLoop(hosts, 1, limit, smgr, showPass, <<>>, <<>>)
    IN  From(SchemaManagerInit(files, plugins, <<>>).schemas)

\* C15 as stated: once schemas and instances or hosts are loaded, the validate
\* and ansible commands exit with a non-zero status if and only if at least
\* one ValidationResult produced is FAIL.
C15_ExitNonZeroIffFail ==
    EndedLoaded => ((exit_status # 0) <=> SomeFail(produced))

\* C15 amended: the exit status is zero if and only if the command ran to
\* completion without an exception and no ValidationResult produced is FAIL
\* (so one more FAIL makes it non-zero); the results produced, and with them
\* the exit status, are the same with and without --show-pass.
C15_ExitZeroIffCompletedWithoutFail ==
    EndedLoaded =>
        /\ (exit_status = 0) <=> (exc = NoExc /\ ~SomeFail(produced))
        /\ exc = NoExc =>
              LET Same(again) ==
                      /\ again.raised = ""
                      /\ again.produced = produced
                      /\ ExitStatus(again.produced) = exit_status
              IN  Same(Rerun(~show_pass))

\* an ansible run that printed passes and exited 1 on a failure
C15_Witness ==
    /\ EndedLoaded
    /\ cmd = "ansible"
    /\ show_pass
    /\ exc = NoExc
    /\ exit_status = 1
    /\ \E k \in 1..Len(produced) : passed(produced[k])
    /\ SomeFail(produced)


\* ---- C16
\* C16: for the self-test run (`schema --check`) the exit status is zero if
\* and only if no FAIL result was produced by the meta-schema check, the
\* valid fixtures or the invalid fixtures of any schema.
C16_CheckExitsNonZeroOnFail ==
    test.op = "check" => ((test.exit_status = 0) <=> ~SomeFail(test.results))

\* ---- C17
\* the directories of invalid/ of the schema, when it is loaded and has some
InvalidDirsOf(schema_id) ==
    IF schema_id \in DictKeys(schemas)
    THEN FixturesOf(fixtures, ShortId(schema_id)).invalid ELSE <<>>

EveryDirHasData(schema_id) ==
    \A i \in 1..Len(InvalidDirsOf(schema_id)) :
        find_file(InvalidDirsOf(schema_id)[i].data) # None

\* test_schema_invalid(schema_id) was called on the fixtures that the last
\* generate_invalid_tests_expected(schema_id) left
TestedAfterGenerate ==
    /\ test.op = "test_schema_invalid"
    /\ generated.op = "generate"
    /\ generated.schema_id = test.schema_id
    /\ test.schema_id \in DictKeys(schemas)
    /\ FixturesOf(fixtures, ShortId(test.schema_id)).hasInvalid
    /\ EveryDirHasData(test.schema_id)

OnlyPass(run) == run.raised = "" /\ ~SomeFail(run.results)

\* C17 as stated: for any schema and any invalid fixture directories that
\* each hold a data file, generate_invalid_tests_expected followed by
\* test_schema_invalid returns only PASS results, whatever results files
\* existed before.
C17_GenerateThenTestPasses ==
    TestedAfterGenerate => OnlyPass(test)

\* C17 amended: when generate_invalid_tests_expected(schema_id) returned
\* normally, test_schema_invalid(schema_id) on the fixtures it left returns
\* one PASS result per fixture directory and no other result, whatever
\* results files existed before.
C17_GenerateCompletedThenTestPasses ==
    (TestedAfterGenerate /\ generated.raised = "") =>
        /\ OnlyPass(test)
        /\ Len(test.results) = Len(InvalidDirsOf(test.schema_id))

\* two directories, one of them with an older results.json, both PASS
C17_Witness ==
    /\ TestedAfterGenerate
    /\ generated.raised = ""
    /\ Len(test.results) = 2
    /\ ~SomeFail(test.results)
    /\ \E i \in 1..2 : InvalidDirsOf(test.schema_id)[i].results["json"].exists
    /\ \E i \in 1..2, k \in 1..2 :
          Len(InvalidDirsOf(test.schema_id)[i].results["yml"].results) = 2
          /\ Len(InvalidDirsOf(test.schema_id)[i].results["yml"].results[k].absolute_path) = 2

\* ---- C18
\* a fixture of invalid/ whose data validates against the schema
SomeFixtureValidates(schema_id) ==
    /\ schema_id \in DictKeys(schemas)
    /\ schemas.at[schema_id].kind = "jsonschema"
    /\ EveryDirHasData(schema_id)
    /\ \E i \in 1..Len(InvalidDirsOf(schema_id)) :
          LET dir == InvalidDirsOf(schema_id)[i]
          IN  ensure_results_invalid(
                  validate_to_dict(schemas.at[schema_id],
                                   dir.data[find_file(dir.data)].content).ret) # ""

\* C18: when an invalid fixture of the schema validates, the generation
\* ends with exit status 1 and no results file has been written or
\* modified.
C18_NothingWrittenWhenAFixtureValidates ==
    [][(test'.op = "generate" /\ SomeFixtureValidates(test'.schema_id))
          => (test'.exit_status = 1 /\ fixtures' = fixtures)]_vars

\* ---- C19
\* the directories of invalid/ that hold both a data and a results file
TestedDirs(schema_id) ==
    SelectSeq(InvalidDirsOf(schema_id),
              LAMBDA dir : find_file(dir.data) # None /\ find_file(dir.results) # None)

\* produced and expected results of the directory are the same
Matches(schema_id, dir) ==
    SameResults(
        SortedByMessage(validate_to_dict(schemas.at[schema_id],
                                         dir.data[find_file(dir.data)].content).ret),
        SortedByMessage(load_results(dir.results[find_file(dir.results)])))

\* what stops test_schema_invalid: an id that is not loaded, no invalid/
\* directory, a validator without validate_to_dict, a results file without
\* the key `results`
StopsTest(schema_id) ==
    \/ schema_id \notin DictKeys(schemas)
    \/ ~FixturesOf(fixtures, ShortId(schema_id)).hasInvalid
    \/ TestedDirs(schema_id) # <<>> /\ schemas.at[schema_id].kind # "jsonschema"
    \/ \E i \in 1..Len(TestedDirs(schema_id)) :
          ~TestedDirs(schema_id)[i].results[find_file(TestedDirs(schema_id)[i].results)].hasResults

\* the results of a run that test_schema_invalid(schema_id) contributed
InvalidResultsOf(results, schema_id) ==
    SelectSeq(results, LAMBDA r : r.instance_type = "TEST" /\ r.instance_location = "invalid"
                                  /\ r.schema_id = schema_id)

\* C19: a mismatch never stops the self-test.  test_schema_invalid raises
\* only for a reason that has nothing to do with the comparison, and
\* otherwise returns exactly one TEST result per fixture directory holding
\* a data and a results file, in order: PASS on a match, FAIL with a message
\* on a mismatch.  A run of test_schemas that ends normally holds these
\* results for every loaded schema.
C19_MismatchIsAResult ==
    /\ test.op = "test_schema_invalid" =>
          /\ (test.raised # "") <=> StopsTest(test.schema_id)
          /\ test.raised = "" =>
                /\ Len(test.results) = Len(TestedDirs(test.schema_id))
                /\ \A i \in 1..Len(test.results) :
                      /\ test.results[i].instance_type = "TEST"
                      /\ test.results[i].instance_name = TestedDirs(test.schema_id)[i].name
                      /\ passed(test.results[i])
                            <=> Matches(test.schema_id, TestedDirs(test.schema_id)[i])
                      /\ ~passed(test.results[i]) =>
                            /\ test.results[i].result = RESULT_FAIL
                            /\ test.results[i].message # NoMessage
    /\ (test.op = "check" /\ test.raised = "") =>
          \A schema_id \in DictKeys(schemas) :
              /\ ~StopsTest(schema_id)
              /\ Len(InvalidResultsOf(test.results, schema_id)) = Len(TestedDirs(schema_id))
              /\ \A i \in 1..Len(TestedDirs(schema_id)) :
                    passed(InvalidResultsOf(test.results, schema_id)[i])
                        <=> Matches(schema_id, TestedDirs(schema_id)[i])

\* a run of test_schemas that reports a mismatch for s1 and goes on to s2
C19_Witness ==
    /\ test.op = "check"
    /\ test.raised = ""
    /\ SomeFail(InvalidResultsOf(test.results, "s1"))
    /\ InvalidResultsOf(test.results, "s2") # <<>>


\* ---- C20
\* the validate command has run its validation loop to the end
ValidatedAll ==
    /\ cmd = "validate"
    /\ pc = "exit"
    /\ ~show_checks
    /\ exc = NoExc
    /\ instances # <<>>

\* the matched schema ids of an instance that the manager does not hold
AbsentMatches(instance) == instance.matches \ DictKeys(schemas)

ResultsFor(instance, schema_id) ==
    SelectSeq(produced, LAMBDA r : r.instance_name = instance.filename
                                   /\ r.schema_id = schema_id)

\* C20: in InstanceFile.validate a matched schema id that is absent from the
\* schema manager is reported as a warning and skipped without raising: the
\* results hold those of every other matched schema that is loaded and none
\* for the absent id.
C20_AbsentSchemaIsWarned ==
    ValidatedAll =>
        \A i \in 1..Len(instances) :
            /\ \A schema_id \in AbsentMatches(instances[i]) :
                  /\ \E w \in 1..Len(warned) :
                        \E k \in 1..Len(warned[w]) : warned[w][k] = schema_id
                  /\ ResultsFor(instances[i], schema_id) = <<>>
            /\ \A key \in instances[i].matches \cap DictKeys(schemas) :
                  ResultsFor(instances[i], schemas.at[key].id) # <<>>

\* ---- C21
\* the messages of a list of result dicts, in the order of the comparison
MessagesOf(results) ==
    [i \in 1..Len(results) |-> MessageOf(SortedByMessage(results)[i])]

\* produced and expected results of the directory hold the same messages
SameMessages(schema_id, dir) ==
    MessagesOf(validate_to_dict(schemas.at[schema_id],
                                dir.data[find_file(dir.data)].content).ret)
        = MessagesOf(load_results(dir.results[find_file(dir.results)]))

\* C21: the comparison of test_schema_invalid depends only on the messages.
\* A fixture directory whose produced and expected results hold the same
\* messages is a PASS, whatever their order and their other fields, and one
\* whose messages differ is a FAIL.
C21_ComparisonOnMessagesOnly ==
    (test.op = "test_schema_invalid" /\ test.raised = "") =>
        \A i \in 1..Len(test.results) :
            i <= Len(TestedDirs(test.schema_id)) =>
                (passed(test.results[i])
                    <=> SameMessages(test.schema_id, TestedDirs(test.schema_id)[i]))

\* ---- C22
\* the valid fixture files of the schema, when it is loaded and has some
ValidFilesOf(schema_id) ==
    IF schema_id \in DictKeys(schemas)
    THEN FixturesOf(fixtures, ShortId(schema_id)).valid ELSE <<>>

\* the results of validating the i-th valid fixture alone, labelled with it
ResultsOfFile(schema_id, i) ==
    LET Labelled(ret) ==
            [k \in 1..Len(ret) |-> WithInstance(ret[k], "TEST", DataFileName(i), "valid")]
    IN  Labelled(Validate(clear_results(schemas.at[schema_id]),
                          ValidFilesOf(schema_id)[i], FALSE).ret)

RECURSIVE ResultsOfFiles(_, _)
ResultsOfFiles(schema_id, n) ==
    IF n = 0 THEN <<>>
    ELSE ResultsOfFiles(schema_id, n - 1) \o ResultsOfFile(schema_id, n)

\* C22: test_schema_valid(schema_id) returns, for each valid fixture file in
\* turn, the results of validating that file alone, labelled with that
\* file: no result of an earlier fixture comes back again or under a later
\* file's name, so k error-free fixtures give k PASS results.
C22_ValidResultsPerFile ==
    (test.op = "test_schema_valid" /\ test.raised = "") =>
        test.results = ResultsOfFiles(test.schema_id, Len(ValidFilesOf(test.schema_id)))

\* ---- C23
\* the ansible command has run its validation loop to the end
HostsValidated ==
    /\ cmd = "ansible"
    /\ pc = "exit"
    /\ ~show_checks
    /\ exc = NoExc

\* the hosts the loop has processed
Processed(host) == limit = None \/ host.name = limit

\* the schema objects validated for the host
ApplicableTo(host) ==
    LET Objects(applicable) ==
            {schemas.at[applicable.at[id].key] : id \in DictKeys(applicable)}
    IN  Objects(get_applicable_schemas(get_clean_host_vars(host), schemas,
                    get_schema_validation_settings(host).declared_schema_ids,
                    get_schema_validation_settings(host).automap).ret)

\* the variables of the host that are top-level properties of the schema
PresentData(hostvars, schema_obj) ==
    [var \in schema_obj.top_level_properties \cap DOMAIN hostvars.map |-> hostvars.map[var]]

\* C23: in non-strict host validation the data passed to an applicable
\* schema holds a key only if it is a top-level property of the schema that
\* the host defines, with the host's value; a property the host does not
\* define is not passed, not even as null.
C23_OnlyDefinedVariablesPassed ==
    HostsValidated =>
        \A i \in 1..Len(hosts) :
            (Processed(hosts[i]) /\ ~get_schema_validation_settings(hosts[i]).strict) =>
                \A schema_obj \in ApplicableTo(hosts[i]) :
                    HostData(get_clean_host_vars(hosts[i]), schema_obj, FALSE).map
                        = PresentData(get_clean_host_vars(hosts[i]), schema_obj)

\* ---- C24
\* C24: after SchemaManager() every entry of SchemaManager.schemas is filed
\* under the id of its validator, a non-empty string: the schema_id of the
\* results a validator produces is the key it is looked up with.
C24_KeyIsValidatorId ==
    (pc = "loaded" /\ exc = NoExc) =>
        \A key \in DictKeys(schemas) :
            /\ key # None
            /\ key # ""
            /\ schemas.at[key].id = key

\* ---- C25
\* C25: whatever the number of accesses to top_level_properties of an
\* InstanceFile, its file is parsed at most once, also when it is empty or
\* yields no property.
C25_ParsedAtMostOnce ==
    pc = "file" => reads <= 1

\* ---- C26
\* the top-level properties of a structured content by its kind
ExpectedProperties(content) ==
    CASE content.kind = "map" -> DOMAIN content.map
      [] content.kind \in {"str", "num", "bool"} -> {content.scalar}
      [] content.kind = "list" ->
            UNION {IF content.elems[i].isMap THEN content.elems[i].keys
                   ELSE {content.elems[i].scalar} : i \in 1..Len(content.elems)}

\* a list of mappings only or of scalars only
Homogeneous(elems) ==
    \/ \A i \in 1..Len(elems) : elems[i].isMap
    \/ \A i \in 1..Len(elems) : ~elems[i].isMap

\* the contents the extraction policy covers
Structured(content) ==
    \/ content.kind \in {"map", "str", "num", "bool"}
    \/ content.kind = "list" /\ Homogeneous(content.elems)

\* C26: for any structured content top_level_properties is computed without
\* error and is the key set of a mapping, the union of the key sets of a
\* list of mappings, the singleton of a scalar (string, number, boolean),
\* the set of the values of a list of scalars.
C26_TopLevelPropertiesByKind ==
    (pc = "file" /\ access.n > 0 /\ Structured(ifile.content)) =>
        /\ access.raised = ""
        /\ access.value = ExpectedProperties(ifile.content)


\* ---- C27
\* the files of the tree that the discovery is to return; a search
\* directory named without "/" is a package name and not a directory
Discoverable(dir, file) ==
    /\ \E i \in 1..Len(search) : search[i].slash /\ IsUnder(dir.path, search[i].path)
    /\ file.ext \in DataFileExtensions
    /\ file.name \notin DataFileExcludeFilenames
    /\ ~is_part_of_excluded_dirs_by_component(dir.path, <<MainDir>>)

\* C27: instance discovery returns exactly the files under the search
\* directories with a recognized extension, a filename that is not
\* excluded, and a directory that is not the main directory or below it.
C27_DiscoveryExact ==
    (pc = "find" /\ located.called) =>
        {located.files[i] : i \in 1..Len(located.files)}
            = UNION {{<<tree[d].path, tree[d].files[k].name>> :
                         k \in {j \in 1..Len(tree[d].files) :
                                   Discoverable(tree[d], tree[d].files[j])}} :
                     d \in 1..Len(tree)}


\* ---- C28
\* C28: when a processed host of the ansible command declares a schema id
\* that is not in the loaded index, the run aborts with SchemaNotDefined
\* before any ValidationResult of any host has been printed.
C28_NothingPrintedBeforeAbort ==
    (cmd = "ansible" /\ ~show_checks /\ pc = "raised" /\ exc.type = "SchemaNotDefined") =>
        printed = <<>>


\* ---- C29
\* the invalid fixture directories of the schema that have no data file
WithoutData(dirs) == {i \in 1..Len(dirs) : find_file(dirs[i].data) = None}

\* the operation went through every directory it can process
RestProcessed(run, before, after) ==
    \A i \in 1..Len(before) :
        /\ (run.op = "test_schema_invalid" /\ find_file(before[i].data) # None
                /\ find_file(before[i].results) # None) =>
               \E k \in 1..Len(run.results) : run.results[k].instance_name = before[i].name
        /\ (run.op = "generate" /\ find_file(before[i].data) # None) =>
               after[i].results["yml"].exists

\* C29: an invalid fixture directory without a data file is skipped with a
\* warning by test_schema_invalid and by generate_invalid_tests_expected:
\* the operation does not raise on it, writes no results file for it, and
\* goes on with the remaining directories of the schema.
C29_MissingDataIsSkipped ==
    [][(/\ test'.op \in {"test_schema_invalid", "generate"}
        /\ test'.schema_id \in DictKeys(schemas)
        /\ FixturesOf(fixtures, ShortId(test'.schema_id)).hasInvalid
        /\ WithoutData(FixturesOf(fixtures, ShortId(test'.schema_id)).invalid) # {}) =>
           LET Skipped(before, after) ==
                   /\ test'.raised # "AttributeError"
                   /\ \A i \in WithoutData(before) : after[i].results = before[i].results
                   /\ test'.raised = "" =>
                          /\ \A i \in WithoutData(before) :
                                 Warning("Could not find data file", before[i].name)
                                     \in {warned'[k] : k \in 1..Len(warned')}
                          /\ RestProcessed(test', before, after)
           IN  Skipped(FixturesOf(fixtures, ShortId(test'.schema_id)).invalid,
                       FixturesOf(fixtures', ShortId(test'.schema_id)).invalid)]_vars


\* ---- C30
\* a FAIL carries a message, a PASS carries no absolute_path
WellFormed(r) ==
    /\ r.result = RESULT_FAIL => r.message # NoMessage
    /\ r.result = RESULT_PASS => r.absolute_path = <<>>

\* C30: every ValidationResult produced through the validator interface
\* (add_validation_error, add_validation_pass, get_results) has a non-empty
\* message when it is a FAIL and an empty absolute_path when it is a PASS.
C30_ResultsWellFormed ==
    pc = "lib" =>
        /\ \A i \in 1..Len(obj.results) : WellFormed(obj.results[i])
        /\ \A i \in 1..Len(last.ret) : WellFormed(last.ret[i])

====
